---- MODULE Spec2Model ----
(***************************************************************************)
(* Model of the dashboard generator's decision engine: schema detection    *)
(* (modules/schema_detector.py), the matching of declared columns          *)
(* (modules/schema_parser.py), univariate ranking and slot allocation      *)
(* (modules/univariate_plots.py), bivariate ranking and slot allocation    *)
(* (modules/bivariate_plots.py) and the commentary call                    *)
(* (modules/ai_insights.py).                                               *)
(*                                                                         *)
(* Every component is a pure function of its inputs, so each has its own   *)
(* specification: Init draws the inputs from bounded sets and the actions  *)
(* run the function's steps in program order.                              *)
(*   SpecUni    generate_univariate_plots / _allocate_slots                *)
(*   SpecBiv    generate_bivariate_plots                                   *)
(*   SpecSchema detect_schema                                              *)
(*   SpecAuto   _auto_detect_type                                          *)
(*   SpecParse  _build_user_schema                                         *)
(*   SpecEta    _compute_eta_squared / _rank_grouped_bar_pairs on rows     *)
(*   SpecSelect _select_numerical_columns / _select_categorical_columns    *)
(*   SpecRetry  _call_commentary_api (SpecRetryFair: with fairness)        *)
(*   SpecLoad   load_csv                                                   *)
(*   SpecText   parse_schema_text                                          *)
(*   SpecApp    the script of app.py, from the upload to the tabs          *)
(*   SpecBatch  generate_batch_commentary                                  *)
(***************************************************************************)
EXTENDS Integers, Sequences, FiniteSets

VARIABLES
    pc,                 \* position in the function being run
    \* ---- generate_univariate_plots -------------------------------------
    n_num,              \* len(num_cols), the ranked numerical columns
    n_cat,              \* len(cat_cols), the ranked categorical columns
    num_slots,          \* _allocate_slots: local num_slots
    cat_slots,          \* _allocate_slots: local cat_slots
    num_surplus,        \* _allocate_slots: local num_surplus
    cat_surplus,        \* _allocate_slots: local cat_surplus
    plots,              \* generate_univariate_plots: returned list
    \* ---- generate_bivariate_plots --------------------------------------
    df,                 \* the dataset, as the statistics pandas reports
    schema_info,        \* SchemaInfo (numerical_cols, categorical_cols, ...)
    results,            \* generate_bivariate_plots: returned list
    remaining,          \* local remaining
    corr,               \* local corr: None or the correlation matrix
    heatmap_made,       \* whether _make_correlation_heatmap returned a plot
    scatter_candidates, \* local scatter_candidates
    bar_candidates,     \* local bar_candidates
    n_scatter,          \* local n_scatter
    n_bar,              \* local n_bar
    \* ---- detect_schema / _auto_detect_type -----------------------------
    user_schema,        \* None or the UserSchema's list of UserColumnInfo
    series,             \* _auto_detect_type: argument series
    n_unique,           \* _auto_detect_type: argument n_unique
    semantic_type,      \* _auto_detect_type: returned value
    \* ---- _build_user_schema -------------------------------------------
    columns_raw,        \* raw["columns"], the descriptors of the reply
    csv_columns,        \* argument csv_columns
    matched,            \* local matched, the list that is returned
    entry_i,            \* position of the for loop in columns_raw
    \* ---- _compute_eta_resultuared / _rank_grouped_bar_pairs ----------------
    eta_result,         \* _compute_eta_resultuared: returned value
    ranked_pairs,       \* _rank_grouped_bar_pairs: returned list
    \* ---- _select_numerical_columns / _select_categorical_columns ------
    num_selection,      \* _select_numerical_columns: returned list
    cat_selection,      \* _select_categorical_columns: returned list
    \* ---- _call_commentary_api -----------------------------------------
    attempt,            \* loop variable attempt
    api_calls,          \* what each client.chat.completions.create did so far
    waits,              \* the time.sleep calls so far, in seconds
    returned,           \* None while running, then the returned value
    user_message,       \* argument user_message: the number of its charts
    \* ---- load_csv -----------------------------------------------------
    file_bytes,         \* argument file_bytes, as read_csv parses it
    max_rows,           \* argument max_rows
    frame,              \* local df: None or the DataFrame
    warnings,           \* local warnings
    load_result,        \* None while running, then what load_csv did
    \* ---- parse_schema_text --------------------------------------------
    schema_text,        \* argument schema_text
    api_reply,          \* None, then what the call of the model gave
    llm_calls,          \* the calls of the model made so far
    parsed,             \* None while running, then what the function did
    \* ---- app.py -------------------------------------------------------
    api_key,            \* the key typed in the sidebar, "" when none
    calls,              \* the functions the script called, in order
    uni_plots,          \* uni_plots
    biv_plots,          \* biv_plots
    questions,          \* questions
    insight_plots,      \* insight_plots
    commentary,         \* commentary: the titles it has a text for
    tab5,               \* what the AI Insights tab displayed
    escaped,            \* None, or the exception that left the script
    \* ---- generate_batch_commentary ------------------------------------
    plot_results,       \* argument plot_results
    batch_start,        \* loop variable batch_start
    raw_items,          \* local raw: the items of the dict, in order
    title_map,          \* local title_map, the dict that is returned
    batches             \* the batches gone through: start, size, reply

uniVars == <<n_num, n_cat, num_slots, cat_slots, num_surplus, cat_surplus, plots>>
bivVars == <<results, remaining, corr, heatmap_made, scatter_candidates,
             bar_candidates, n_scatter, n_bar>>
autoVars == <<series, n_unique, semantic_type>>
parseVars == <<columns_raw, csv_columns, matched, entry_i>>
etaVars == <<eta_result, ranked_pairs>>
selectVars == <<num_selection, cat_selection>>
retryVars == <<attempt, api_calls, waits, returned, user_message>>
loadVars == <<file_bytes, max_rows, frame, warnings, load_result>>
textVars == <<schema_text, api_reply, llm_calls, parsed>>
appVars == <<api_key, calls, uni_plots, biv_plots, questions, insight_plots,
             commentary, tab5, escaped>>
batchVars == <<plot_results, batch_start, raw_items, title_map, batches>>
pipeVars == <<loadVars, textVars, appVars, batchVars>>
laterVars == <<parseVars, etaVars, selectVars, retryVars, pipeVars>>
earlierVars == <<uniVars, df, schema_info, bivVars, user_schema, autoVars,
                 parseVars, etaVars, selectVars, retryVars>>
vars == <<pc, uniVars, df, schema_info, bivVars, user_schema, autoVars,
          laterVars>>

\* Python's None, and a value x where None is possible too
None == <<>>
Some(x) == <<x>>

\* The variables of a function that is not the one being run.
InertParse ==
    columns_raw = <<>> /\ csv_columns = <<>> /\ matched = <<>> /\ entry_i = 0
InertEta == eta_result = None /\ ranked_pairs = <<>>
InertSelect == num_selection = <<>> /\ cat_selection = <<>>
InertRetry ==
    /\ attempt = 0 /\ api_calls = <<>> /\ waits = <<>> /\ returned = None
    /\ user_message = 0
InertLoad ==
    /\ file_bytes = None /\ max_rows = 0 /\ frame = None /\ warnings = <<>>
    /\ load_result = None
InertText ==
    schema_text = <<>> /\ api_reply = None /\ llm_calls = 0 /\ parsed = None
InertApp ==
    /\ api_key = "" /\ calls = <<>> /\ uni_plots = <<>> /\ biv_plots = <<>>
    /\ questions = <<>> /\ insight_plots = <<>> /\ commentary = {}
    /\ tab5 = <<>> /\ escaped = None
InertBatch ==
    /\ plot_results = <<>> /\ batch_start = 0 /\ raw_items = <<>>
    /\ title_map = <<>> /\ batches = <<>>
InertPipe == InertLoad /\ InertText /\ InertApp /\ InertBatch
InertLater == InertParse /\ InertEta /\ InertSelect /\ InertRetry /\ InertPipe

(***************************************************************************)
(* Bounds of the model.                                                    *)
(***************************************************************************)
\* most ranked columns of one kind handed to _allocate_slots
MaxCandidates == 12
\* most plotting calls that raise in one run
MaxFailures == 1
\* most numerical columns of a schema handed to generate_bivariate_plots
MaxNumerical == 4
\* most categorical columns of a schema handed to generate_bivariate_plots
MaxCategorical == 2
\* most columns of a dataset handed to detect_schema
MaxColumns == 2
\* most UserColumnInfo entries of a user schema
MaxDescriptors == 2
\* largest unique-value count handed to _auto_detect_type
MaxUnique == 22

(***************************************************************************)
(* modules/constants.py and the module-level defaults.                     *)
(***************************************************************************)
MAX_UNIVARIATE_PLOTS == 9
MAX_BIVARIATE_PLOTS == 9
MAX_UNIQUE_FOR_CATEGORICAL == 20
\* MIN_CORRELATION_THRESHOLD = 0.3, in the model's unit of 1/100
MIN_CORRELATION_THRESHOLD == 30
_DEFAULT_NUM_SLOTS == 5
_DEFAULT_CAT_SLOTS == 4

\* Python's min(a, b)
min(a, b) == IF a <= b THEN a ELSE b

\* Python's abs(a)
abs(a) == IF a < 0 THEN -a ELSE a

\* Python's len(xs[:k]) for a list of length n
SliceLen(n, k) == IF k >= 0 THEN min(n, k) ELSE (IF n + k > 0 THEN n + k ELSE 0)

\* The subsets of S a run's failing plot calls can form.
FailureSets(S) == {F \in SUBSET S : Cardinality(F) <= MaxFailures}

(***************************************************************************)
(* generate_univariate_plots and _allocate_slots.                          *)
(***************************************************************************)

\* A grant that ignores how many candidates the pool has.
InitialSlots_IgnoreAvailable(n, default_slots) == default_slots

\* _allocate_slots, lines 85-86: the initial grant of one pool.
InitialSlots(n, default_slots) == min(n, default_slots)

\* A surplus that forgets what the pool used.
Surplus_WholeDefault(default_slots, slots) == default_slots

\* _allocate_slots, lines 89-90: what a pool leaves unused of its default.
Surplus(default_slots, slots) == default_slots - slots

\* A donation that is not capped by the pool's candidates.
DonatedSlots_NoCap(n, slots, other_surplus) == slots + other_surplus

\* _allocate_slots, lines 92-93: a pool's grant after the other pool's
\* surplus is added, capped by the pool's own candidates.
DonatedSlots(n, slots, other_surplus) == min(n, slots + other_surplus)

\* _allocate_slots, lines 96-97: the test of the final cap.
OverBudget(num, cat) == num + cat > MAX_UNIVARIATE_PLOTS

\* _allocate_slots, line 99: the truncated categorical grant.
TruncatedCatSlots(num) == MAX_UNIVARIATE_PLOTS - num

\* A PlotResult of generate_univariate_plots: its plot_type and the rank of
\* its column in num_cols / cat_cols (the title is the column's name).
UniPlot(type, rank) == [plot_type |-> type, column |-> rank]

\* generate_univariate_plots, lines 56-64: the plots of the selected columns,
\* numerical first, without those whose call returned None.  A call is
\* <<type, rank>>.
RECURSIVE UniPlotsFrom(_, _, _, _)
UniPlotsFrom(kind, from, to, failed) ==
    IF from > to THEN <<>>
    ELSE (IF <<kind, from>> \in failed THEN <<>> ELSE <<UniPlot(kind, from)>>)
         \o UniPlotsFrom(kind, from + 1, to, failed)

UniCalls(ns, cs) ==
    ({"histogram"} \X (1..ns)) \cup ({"bar_chart"} \X (1..cs))

InitUniOther ==
    /\ df = None /\ schema_info = None
    /\ results = <<>> /\ remaining = 0 /\ corr = None /\ heatmap_made = FALSE
    /\ scatter_candidates = <<>> /\ bar_candidates = <<>>
    /\ n_scatter = 0 /\ n_bar = 0
    /\ user_schema = None
    /\ series = None /\ n_unique = 0 /\ semantic_type = None
    /\ InertLater

InitUni ==
    /\ pc = "alloc_initial"
    /\ n_num \in 0..MaxCandidates
    /\ n_cat \in 0..MaxCandidates
    /\ num_slots = 0 /\ cat_slots = 0
    /\ num_surplus = 0 /\ cat_surplus = 0
    /\ plots = <<>>
    /\ InitUniOther

\* lines 85-86
AllocInitial ==
    /\ pc = "alloc_initial"
    /\ num_slots' = InitialSlots(n_num, _DEFAULT_NUM_SLOTS)
    /\ cat_slots' = InitialSlots(n_cat, _DEFAULT_CAT_SLOTS)
    /\ pc' = "alloc_surplus"
    /\ UNCHANGED <<n_num, n_cat, num_surplus, cat_surplus, plots>>
    /\ UNCHANGED <<df, schema_info, bivVars, user_schema, autoVars>>
    /\ UNCHANGED laterVars

\* lines 89-90
AllocSurplus ==
    /\ pc = "alloc_surplus"
    /\ num_surplus' = Surplus(_DEFAULT_NUM_SLOTS, num_slots)
    /\ cat_surplus' = Surplus(_DEFAULT_CAT_SLOTS, cat_slots)
    /\ pc' = "alloc_donate"
    /\ UNCHANGED <<n_num, n_cat, num_slots, cat_slots, plots>>
    /\ UNCHANGED <<df, schema_info, bivVars, user_schema, autoVars>>
    /\ UNCHANGED laterVars

\* lines 92-93
AllocDonate ==
    /\ pc = "alloc_donate"
    /\ num_slots' = DonatedSlots(n_num, num_slots, cat_surplus)
    /\ cat_slots' = DonatedSlots(n_cat, cat_slots, num_surplus)
    /\ pc' = "alloc_cap"
    /\ UNCHANGED <<n_num, n_cat, num_surplus, cat_surplus, plots>>
    /\ UNCHANGED <<df, schema_info, bivVars, user_schema, autoVars>>
    /\ UNCHANGED laterVars

\* lines 96-101: the final cap, and the return to generate_univariate_plots
AllocCap ==
    /\ pc = "alloc_cap"
    /\ cat_slots' = IF OverBudget(num_slots, cat_slots)
                    THEN TruncatedCatSlots(num_slots)
                    ELSE cat_slots
    /\ pc' = "uni_plots"
    /\ UNCHANGED <<n_num, n_cat, num_slots, num_surplus, cat_surplus, plots>>
    /\ UNCHANGED <<df, schema_info, bivVars, user_schema, autoVars>>
    /\ UNCHANGED laterVars

\* generate_univariate_plots, lines 51-66: num_cols[:num_slots] and
\* cat_cols[:cat_slots] are plotted; a call that raises yields None and is
\* left out.
UniMakePlots ==
    /\ pc = "uni_plots"
    /\ LET selected_num == SliceLen(n_num, num_slots)
           selected_cat == SliceLen(n_cat, cat_slots)
       IN  \E failed \in FailureSets(UniCalls(selected_num, selected_cat)) :
              plots' = UniPlotsFrom("histogram", 1, selected_num, failed)
                       \o UniPlotsFrom("bar_chart", 1, selected_cat, failed)
    /\ pc' = "uni_done"
    /\ UNCHANGED <<n_num, n_cat, num_slots, cat_slots, num_surplus, cat_surplus>>
    /\ UNCHANGED <<df, schema_info, bivVars, user_schema, autoVars>>
    /\ UNCHANGED laterVars

NextUni ==
    \/ AllocInitial
    \/ AllocSurplus
    \/ AllocDonate
    \/ AllocCap
    \/ UniMakePlots

SpecUni == InitUni /\ [][NextUni]_vars

\* _allocate_slots has returned
Allocated == pc \in {"uni_plots", "uni_done"}

(***************************************************************************)
(* C1: for all n_num, n_cat >= 0, _allocate_slots returns grants with      *)
(* num_slots + cat_slots <= 9, 0 <= num_slots <= n_num and                 *)
(* 0 <= cat_slots <= n_cat, and generate_univariate_plots returns at most  *)
(* 9 plots.                                                                *)
(***************************************************************************)
C1_BudgetRespected ==
    /\ Allocated =>
          /\ num_slots + cat_slots <= 9
          /\ 0 <= num_slots /\ num_slots <= n_num
          /\ 0 <= cat_slots /\ cat_slots <= n_cat
    /\ pc = "uni_done" => Len(plots) <= 9

\* both pools over-supplied and all nine plots returned
C1_Witness ==
    /\ pc = "uni_done" /\ n_num > 5 /\ n_cat > 4 /\ Len(plots) = 9

(***************************************************************************)
(* C2 as stated: each pool's grant is at most min(default cap of the pool, *)
(* candidates of the pool): num_slots <= min(5, n_num) and                 *)
(* cat_slots <= min(4, n_cat).                                             *)
(***************************************************************************)
C2_PerPoolCapAsStated ==
    Allocated =>
        /\ num_slots <= min(5, n_num)
        /\ cat_slots <= min(4, n_cat)

(***************************************************************************)
(* C2 amended: each pool's grant is at most its number of candidates and   *)
(* exceeds the pool's default cap by no more than the slots the other pool *)
(* left unused of its own default cap:                                     *)
(* num_slots <= min(n_num, 5 + (4 - min(n_cat, 4))) and                    *)
(* cat_slots <= min(n_cat, 4 + (5 - min(n_num, 5))).                       *)
(***************************************************************************)
C2_PerPoolCapWithDonation ==
    Allocated =>
        /\ num_slots <= min(n_num, 5 + (4 - min(n_cat, 4)))
        /\ cat_slots <= min(n_cat, 4 + (5 - min(n_num, 5)))

\* a pool granted more than its default cap
C2_Witness ==
    /\ Allocated /\ cat_slots > 4 /\ n_num < 5

(***************************************************************************)
(* C3: one-pass donation.  Each pool's grant equals                        *)
(* min(available, min(available, cap) + (other_cap - min(other_available,  *)
(* other_cap))) with caps (5, 4); available (2, 10) yields (2, 7); and a   *)
(* pool that grew by donation does not donate back: the other pool keeps   *)
(* exactly its initial grant.                                              *)
(***************************************************************************)
C3_OnePassDonation ==
    Allocated =>
        /\ num_slots = min(n_num, min(n_num, 5) + (4 - min(n_cat, 4)))
        /\ cat_slots = min(n_cat, min(n_cat, 4) + (5 - min(n_num, 5)))
        /\ (n_num = 2 /\ n_cat = 10) => (num_slots = 2 /\ cat_slots = 7)
        /\ num_slots > min(n_num, 5) => cat_slots = min(n_cat, 4)
        /\ cat_slots > min(n_cat, 4) => num_slots = min(n_num, 5)

\* the spec's example: available (2, 10) grants (2, 7)
C3_Witness ==
    /\ Allocated /\ n_num = 2 /\ n_cat = 10 /\ num_slots = 2 /\ cat_slots = 7

(***************************************************************************)
(* generate_bivariate_plots.                                               *)
(*                                                                         *)
(* The dataset is given by what pandas computes from it.  Its columns      *)
(* follow a one-factor model: a numerical column is constant, or loads on  *)
(* a common factor with loading l (unit 1/10), so that the Pearson         *)
(* correlation of two columns is l1 * l2 (unit 1/100) and is NaN when one  *)
(* of them is constant; a categorical column splits the rows into `groups` *)
(* non-empty groups that explain `effect` (unit 1/10) of the factor's      *)
(* variance.  Correlations are in 1/100, eta-squared in 1/1000.            *)
(***************************************************************************)
NumKinds ==
    { [const |-> TRUE,  loading |-> 0],
      [const |-> FALSE, loading |-> 5],
      [const |-> FALSE, loading |-> -6] }

CatKinds ==
    { [groups |-> 1, effect |-> 0],
      [groups |-> 3, effect |-> 10] }

NumName(i) == <<"num", i>>
CatName(j) == <<"cat", j>>

\* float('nan') and a float r, as entries of the correlation matrix
NaN == [nan |-> TRUE, r |-> 0]
Float(x) == [nan |-> FALSE, r |-> x]

\* pandas: df[a].corr(df[b]), Pearson
Pearson(d, a, b) ==
    IF a = b THEN (IF d.num[a].const THEN NaN ELSE Float(100))
    ELSE IF d.num[a].const \/ d.num[b].const THEN NaN
    ELSE Float(d.num[a].loading * d.num[b].loading)

\* pandas: df[numerical_cols].corr(), indexed as corr.iloc[i, j] (from 1)
CorrMatrix(d, cols) ==
    [ij \in (1..Len(cols)) \X (1..Len(cols)) |-> Pearson(d, cols[ij[1]], cols[ij[2]])]

\* itertools.combinations(range(n), 2), in its order, indices from 1
RECURSIVE CombinationsFrom(_, _, _)
CombinationsFrom(i, j, n) ==
    IF i >= n THEN <<>>
    ELSE IF j > n THEN CombinationsFrom(i + 1, i + 2, n)
    ELSE <<<<i, j>>>> \o CombinationsFrom(i, j + 1, n)

combinations(n) == CombinationsFrom(1, 2, n)

\* list.sort(key=..., reverse=True) of xs, whose keys are keys[i] for
\* xs[i]: descending, equal keys keep their order.  The element at i goes
\* behind those with a larger key and those with an equal key that precede
\* it.
SortDesc(xs, keys) ==
    LET rank(i) == Cardinality({j \in 1..Len(xs) :
                        \/ keys[j] > keys[i]
                        \/ keys[j] = keys[i] /\ j < i}) + 1
    IN  [p \in 1..Len(xs) |-> xs[CHOOSE i \in 1..Len(xs) : rank(i) = p]]

\* A slice that takes the whole list.
Slice_Whole(xs, k) == xs

\* xs[:k]
Slice(xs, k) == SubSeq(xs, 1, SliceLen(Len(xs), k))

\* A filter that leaves out the pairs at the threshold itself.
ScatterKeep_AboveThreshold(r_val) ==
    ~r_val.nan /\ abs(r_val.r) > MIN_CORRELATION_THRESHOLD

\* the filter of _rank_scatter_pairs, line 219
ScatterKeep(r_val) ==
    ~r_val.nan /\ abs(r_val.r) >= MIN_CORRELATION_THRESHOLD

\* the sort key of _rank_scatter_pairs, line 222
ScatterKey(pair) == abs(pair[3])

\* _rank_scatter_pairs, lines 212-223: the pairs <<col1, col2, r>>
RECURSIVE ScatterPairs(_, _, _)
ScatterPairs(c, cols, ijs) ==
    IF ijs = <<>> THEN <<>>
    ELSE LET ij == Head(ijs)
             r_val == c[1][ij]
         IN  (IF ScatterKeep(r_val)
              THEN <<<<cols[ij[1]], cols[ij[2]], r_val.r>>>>
              ELSE <<>>)
             \o ScatterPairs(c, cols, Tail(ijs))

\* A ranking that filters the pairs and forgets to sort them.
_rank_scatter_pairs_Unsorted(c, numerical_cols) ==
    IF c = None \/ Len(numerical_cols) < 2 THEN <<>>
    ELSE ScatterPairs(c, numerical_cols, combinations(Len(numerical_cols)))

_rank_scatter_pairs(c, numerical_cols) ==
    IF c = None \/ Len(numerical_cols) < 2 THEN <<>>
    ELSE LET pairs == ScatterPairs(c, numerical_cols,
                                   combinations(Len(numerical_cols)))
         IN  SortDesc(pairs, [i \in 1..Len(pairs) |-> ScatterKey(pairs[i])])

\* _compute_eta_squared, lines 275-297, on the dataset's statistics: None
\* with fewer than 2 non-empty groups, 0.0 when ss_total == 0, else
\* ss_between / ss_total.
_compute_eta_squared(d, cat_col, num_col) ==
    LET ss_total == IF d.num[num_col].const THEN 0 ELSE 1000
        ss_between == d.cat[cat_col].effect
                      * d.num[num_col].loading * d.num[num_col].loading
    IN  IF d.cat[cat_col].groups < 2 THEN None
        ELSE IF ss_total = 0 THEN Some(0)
        ELSE Some((ss_between * 1000) \div ss_total)

\* the sort key of _rank_grouped_bar_pairs, line 252
BarKey(pair) == pair[3]

\* _rank_grouped_bar_pairs, lines 246-250: the pairs <<cat_col, num_col,
\* eta_sq>>, categorical column by categorical column
RECURSIVE BarPairs(_, _, _, _, _)
BarPairs(d, categorical_cols, numerical_cols, i, j) ==
    IF i > Len(categorical_cols) THEN <<>>
    ELSE IF j > Len(numerical_cols)
         THEN BarPairs(d, categorical_cols, numerical_cols, i + 1, 1)
    ELSE LET eta_sq == _compute_eta_squared(d, categorical_cols[i], numerical_cols[j])
         IN  (IF eta_sq # None
              THEN <<<<categorical_cols[i], numerical_cols[j], eta_sq[1]>>>>
              ELSE <<>>)
             \o BarPairs(d, categorical_cols, numerical_cols, i, j + 1)

_rank_grouped_bar_pairs(d, categorical_cols, numerical_cols) ==
    IF categorical_cols = <<>> \/ numerical_cols = <<>> THEN <<>>
    ELSE LET pairs == BarPairs(d, categorical_cols, numerical_cols, 1, 1)
         IN  SortDesc(pairs, [i \in 1..Len(pairs) |-> BarKey(pairs[i])])

\* An allocator whose scatter cap is the whole remaining budget.
max_scatter_Uncapped == remaining

\* lines 64-65 and 72-73
max_scatter == min(4, remaining)
max_bar == min(4, remaining)
n_scatter_available == min(Len(scatter_candidates), max_scatter)
n_bar_available == min(Len(bar_candidates), max_bar)

\* lines 77-88: <<n_scatter, n_bar>> from n_scatter_available,
\* n_bar_available, max_scatter, max_bar and remaining
BivariateSlots(sa, ba, ms, mb, rem) ==
    IF sa + ba <= rem THEN <<sa, ba>>
    ELSE IF sa < ms THEN <<sa, min(ba, rem - sa)>>
    ELSE IF ba < mb THEN <<min(sa, rem - ba), ba>>
    ELSE LET s == min(sa, rem \div 2) IN <<s, min(ba, rem - s)>>

\* PlotResults of generate_bivariate_plots: plot_type and column_names
HeatmapPlot(numerical_cols) ==
    [plot_type |-> "heatmap", column_names |-> numerical_cols]
ScatterPlot(pair) ==
    [plot_type |-> "scatter", column_names |-> <<pair[1], pair[2]>>]
GroupedBarPlot(pair) ==
    [plot_type |-> "grouped_bar", column_names |-> <<pair[1], pair[2]>>]

\* _make_correlation_heatmap, lines 135-161: what a call can return, the
\* PlotResult or, when anything in the try block raises, None
_make_correlation_heatmap(numerical_cols) ==
    {Some(HeatmapPlot(numerical_cols)), None}

\* A heatmap that takes no slot of the budget.
RemainingAfterHeatmap_NotCounted(heatmap) == MAX_BIVARIATE_PLOTS

\* lines 51 and 57-59: remaining after the heatmap call
RemainingAfterHeatmap(heatmap) ==
    IF heatmap # None THEN MAX_BIVARIATE_PLOTS - 1 ELSE MAX_BIVARIATE_PLOTS

\* lines 91-112: the plots of the calls that did not raise, in call order.
\* A call is <<plot_type, position in the slice>>.
RECURSIVE BivPlotsFrom(_, _, _, _)
BivPlotsFrom(kind, pairs, k, failed) ==
    IF k > Len(pairs) THEN <<>>
    ELSE (IF <<kind, k>> \in failed THEN <<>>
          ELSE IF kind = "scatter" THEN <<ScatterPlot(pairs[k])>>
          ELSE <<GroupedBarPlot(pairs[k])>>)
         \o BivPlotsFrom(kind, pairs, k + 1, failed)

BivCalls(ns, nb) ==
    ({"scatter"} \X (1..ns)) \cup ({"grouped_bar"} \X (1..nb))

\* The datasets with the given columns.
Datasets(numerical_cols, categorical_cols) ==
    [num : [{numerical_cols[i] : i \in 1..Len(numerical_cols)} -> NumKinds],
     cat : [{categorical_cols[j] : j \in 1..Len(categorical_cols)} -> CatKinds]]

InitBivOther ==
    /\ n_num = 0 /\ n_cat = 0 /\ num_slots = 0 /\ cat_slots = 0
    /\ num_surplus = 0 /\ cat_surplus = 0 /\ plots = <<>>
    /\ user_schema = None
    /\ series = None /\ n_unique = 0 /\ semantic_type = None
    /\ InertLater

InitBiv ==
    /\ pc = "biv_start"
    /\ \E nn \in 0..MaxNumerical, nc \in 0..MaxCategorical :
          schema_info = [numerical_cols |-> [i \in 1..nn |-> NumName(i)],
                         categorical_cols |-> [j \in 1..nc |-> CatName(j)]]
    /\ df \in Datasets(schema_info.numerical_cols, schema_info.categorical_cols)
    /\ results = <<>> /\ remaining = 0 /\ corr = None /\ heatmap_made = FALSE
    /\ scatter_candidates = <<>> /\ bar_candidates = <<>>
    /\ n_scatter = 0 /\ n_bar = 0
    /\ InitBivOther

\* lines 47-48: no numerical column, the empty list is returned
BivEmpty ==
    /\ pc = "biv_start"
    /\ Len(schema_info.numerical_cols) = 0
    /\ results' = <<>>
    /\ pc' = "biv_done"
    /\ UNCHANGED <<remaining, corr, heatmap_made, scatter_candidates,
                   bar_candidates, n_scatter, n_bar>>
    /\ UNCHANGED <<uniVars, df, schema_info, user_schema, autoVars>>
    /\ UNCHANGED laterVars

\* lines 50-61: the heatmap, which _make_correlation_heatmap returns or,
\* when anything in it raises, replaces by None
BivHeatmap ==
    /\ pc = "biv_start"
    /\ Len(schema_info.numerical_cols) # 0
    /\ IF Len(schema_info.numerical_cols) >= 2
       THEN /\ \E heatmap \in _make_correlation_heatmap(schema_info.numerical_cols) :
                  /\ heatmap_made' = (heatmap # None)
                  /\ results' = IF heatmap # None
                                THEN <<heatmap[1]>>
                                ELSE <<>>
                  /\ remaining' = RemainingAfterHeatmap(heatmap)
            /\ corr' = Some(CorrMatrix(df, schema_info.numerical_cols))
       ELSE /\ heatmap_made' = FALSE
            /\ results' = <<>>
            /\ remaining' = MAX_BIVARIATE_PLOTS
            /\ corr' = None
    /\ pc' = "biv_rank"
    /\ UNCHANGED <<scatter_candidates, bar_candidates, n_scatter, n_bar>>
    /\ UNCHANGED <<uniVars, df, schema_info, user_schema, autoVars>>
    /\ UNCHANGED laterVars

\* lines 67-70: the ranked candidates
BivRank ==
    /\ pc = "biv_rank"
    /\ scatter_candidates' = _rank_scatter_pairs(corr, schema_info.numerical_cols)
    /\ bar_candidates' = _rank_grouped_bar_pairs(df, schema_info.categorical_cols,
                                                 schema_info.numerical_cols)
    /\ pc' = "biv_allocate"
    /\ UNCHANGED <<results, remaining, corr, heatmap_made, n_scatter, n_bar>>
    /\ UNCHANGED <<uniVars, df, schema_info, user_schema, autoVars>>
    /\ UNCHANGED laterVars

\* lines 72-88: the slot allocation
BivAllocate ==
    /\ pc = "biv_allocate"
    /\ LET slots == BivariateSlots(n_scatter_available, n_bar_available,
                                   max_scatter, max_bar, remaining)
       IN  /\ n_scatter' = slots[1]
           /\ n_bar' = slots[2]
    /\ pc' = "biv_plots"
    /\ UNCHANGED <<results, remaining, corr, heatmap_made, scatter_candidates,
                   bar_candidates>>
    /\ UNCHANGED <<uniVars, df, schema_info, user_schema, autoVars>>
    /\ UNCHANGED laterVars

\* lines 90-114: the scatter plots, then the grouped bars; a call that
\* raises is logged and its plot left out
BivMakePlots ==
    /\ pc = "biv_plots"
    /\ LET scatters == Slice(scatter_candidates, n_scatter)
           bars == Slice(bar_candidates, n_bar)
       IN  \E failed \in FailureSets(BivCalls(Len(scatters), Len(bars))) :
              results' = results
                         \o BivPlotsFrom("scatter", scatters, 1, failed)
                         \o BivPlotsFrom("grouped_bar", bars, 1, failed)
    /\ pc' = "biv_done"
    /\ UNCHANGED <<remaining, corr, heatmap_made, scatter_candidates,
                   bar_candidates, n_scatter, n_bar>>
    /\ UNCHANGED <<uniVars, df, schema_info, user_schema, autoVars>>
    /\ UNCHANGED laterVars

NextBiv ==
    \/ BivEmpty
    \/ BivHeatmap
    \/ BivRank
    \/ BivAllocate
    \/ BivMakePlots

SpecBiv == InitBiv /\ [][NextBiv]_vars

\* the plots of one type in a returned list
Count(type, rs) == Cardinality({i \in 1..Len(rs) : rs[i].plot_type = type})

\* the allocation has been made
BivAllocated == pc \in {"biv_plots", "biv_done"}

\* the heatmap step (lines 50-61) is over; the early return of line 48
\* does not reach it
BivHeatmapDone ==
    /\ pc \in {"biv_rank", "biv_allocate", "biv_plots", "biv_done"}
    /\ Len(schema_info.numerical_cols) > 0

(***************************************************************************)
(* C4: generate_bivariate_plots returns at most 9 (MAX_BIVARIATE_PLOTS)    *)
(* results, the heatmap counted, whatever the schema and the numbers of    *)
(* scatter and grouped-bar candidates.                                     *)
(***************************************************************************)
C4_AtMostNinePlots ==
    pc = "biv_done" => Len(results) <= 9

\* nine plots returned, with more candidates than slots in both pools
C4_Witness ==
    /\ pc = "biv_done" /\ Len(results) = 9
    /\ Len(scatter_candidates) > 4 /\ Len(bar_candidates) > 4

(***************************************************************************)
(* C5: the bivariate allocation applies the two-pool donation rule to the  *)
(* budget left after the heatmap: a pool with fewer candidates than its    *)
(* cap of 4 gives its unused slots to the other pool, limited by that      *)
(* pool's candidates and the remaining budget (with a heatmap, 1 scatter   *)
(* candidate and 10 grouped-bar candidates give 1 scatter and 7 bars).     *)
(***************************************************************************)
C5_BivariateDonation ==
    BivAllocated =>
        LET s == Len(scatter_candidates)
            b == Len(bar_candidates)
        IN  /\ n_scatter = min(min(s, min(s, 4) + (4 - min(b, 4))), remaining)
            /\ n_bar = min(min(b, min(b, 4) + (4 - min(s, 4))),
                           remaining - n_scatter)

(***************************************************************************)
(* C6 as stated: the output holds exactly one heatmap if the schema has at *)
(* least 2 numerical columns and none otherwise, and the heatmap consumes  *)
(* one slot of the budget whenever at least 2 numerical columns exist.     *)
(***************************************************************************)
C6_HeatmapIffTwoNumericalAsStated ==
    /\ pc = "biv_done" =>
          Count("heatmap", results)
              = (IF Len(schema_info.numerical_cols) >= 2 THEN 1 ELSE 0)
    /\ (BivHeatmapDone /\ Len(schema_info.numerical_cols) >= 2) =>
          remaining = MAX_BIVARIATE_PLOTS - 1

(***************************************************************************)
(* C6 amended: the output holds at most one heatmap, and none if the       *)
(* schema has fewer than 2 numerical columns; with at least 2 numerical    *)
(* columns it holds exactly one heatmap if _make_correlation_heatmap       *)
(* returned a plot and none if it returned None (the heatmap could not be  *)
(* built); the heatmap consumes one slot of the budget exactly when it is  *)
(* in the output.                                                          *)
(***************************************************************************)
C6_HeatmapIffBuilt ==
    /\ Count("heatmap", results) <= 1
    /\ Len(schema_info.numerical_cols) < 2 => Count("heatmap", results) = 0
    /\ BivHeatmapDone =>
          /\ Count("heatmap", results) = (IF heatmap_made THEN 1 ELSE 0)
          /\ heatmap_made => Len(schema_info.numerical_cols) >= 2
          /\ remaining = MAX_BIVARIATE_PLOTS - Count("heatmap", results)

\* a schema with 2 numerical columns or more whose heatmap was built
C6_Witness ==
    /\ pc = "biv_done" /\ Len(schema_info.numerical_cols) >= 2
    /\ heatmap_made /\ Count("heatmap", results) = 1 /\ remaining = 8

\* |r| of a scatter plot's columns and eta-squared of a grouped bar's
PlotAbsR(plot) == abs(Pearson(df, plot.column_names[1], plot.column_names[2]).r)
PlotEta(plot) ==
    _compute_eta_squared(df, plot.column_names[1], plot.column_names[2])[1]

SemanticTypes == {"numerical", "categorical", "datetime"}

DTypes == {"bool", "int64", "float64", "datetime64[ns]", "object", "category"}

\* the series _auto_detect_type can be handed: dtype, and for object dtype
\* whether pd.to_datetime(series.dropna().head(50)) returns (TRUE) or raises
\* ValueError / TypeError (FALSE)
SeriesKinds ==
    {[dtype |-> d, parses |-> FALSE] : d \in DTypes}
    \cup {[dtype |-> "object", parses |-> TRUE]}

\* pd.api.types.is_bool_dtype
is_bool_dtype(ser) == ser.dtype = "bool"

\* pd.api.types.is_numeric_dtype: booleans are numeric for pandas
is_numeric_dtype(ser) == ser.dtype \in {"bool", "int64", "float64"}

\* pd.api.types.is_datetime64_any_dtype
is_datetime64_any_dtype(ser) == ser.dtype = "datetime64[ns]"

\* A classifier without the boolean rule of lines 115-116.
_auto_detect_type_NoBoolRule(ser, nu) ==
    IF is_numeric_dtype(ser)
    THEN (IF nu > MAX_UNIQUE_FOR_CATEGORICAL THEN "numerical" ELSE "categorical")
    ELSE IF is_datetime64_any_dtype(ser) THEN "datetime"
    ELSE IF ser.dtype = "object" /\ ser.parses THEN "datetime"
    ELSE "categorical"

\* A classifier whose cardinality test is >=, not >.
_auto_detect_type_AtLeast(ser, nu) ==
    IF is_bool_dtype(ser) THEN "categorical"
    ELSE IF is_numeric_dtype(ser)
    THEN (IF nu >= MAX_UNIQUE_FOR_CATEGORICAL THEN "numerical" ELSE "categorical")
    ELSE IF is_datetime64_any_dtype(ser) THEN "datetime"
    ELSE IF ser.dtype = "object" /\ ser.parses THEN "datetime"
    ELSE "categorical"

\* _auto_detect_type, lines 115-134
_auto_detect_type(ser, nu) ==
    IF is_bool_dtype(ser) THEN "categorical"
    ELSE IF is_numeric_dtype(ser)
    THEN (IF nu > MAX_UNIQUE_FOR_CATEGORICAL THEN "numerical" ELSE "categorical")
    ELSE IF is_datetime64_any_dtype(ser) THEN "datetime"
    ELSE IF ser.dtype = "object" /\ ser.parses THEN "datetime"
    ELSE "categorical"

\* the name of the i-th column of a dataset
ColName(i) == <<"col", i>>

\* the description of the k-th entry of a user schema, and the empty string
Description(k) == <<"description", k>>
EmptyString == <<>>

\* the columns a dataset of detect_schema is made of: the series and its
\* nunique()
ColumnKinds ==
    { [ser |-> [dtype |-> "bool", parses |-> FALSE], nunique |-> 2],
      [ser |-> [dtype |-> "int64", parses |-> FALSE], nunique |-> 20],
      [ser |-> [dtype |-> "float64", parses |-> FALSE], nunique |-> 21],
      [ser |-> [dtype |-> "datetime64[ns]", parses |-> FALSE], nunique |-> 3],
      [ser |-> [dtype |-> "object", parses |-> TRUE], nunique |-> 3],
      [ser |-> [dtype |-> "object", parses |-> FALSE], nunique |-> 3] }

\* df.columns
Columns(d) == [i \in 1..Len(d) |-> ColName(i)]

\* the names a user schema declares
DeclaredNames(us) ==
    IF us = None THEN {} ELSE {us[1][k].name : k \in 1..Len(us[1])}

\* A lookup in which the first entry of a name wins.
UserLookup_FirstWins(us) ==
    [name \in DeclaredNames(us) |->
        LET k == CHOOSE k \in 1..Len(us[1]) :
                    /\ us[1][k].name = name
                    /\ \A l \in 1..(k - 1) : us[1][l].name # name
        IN  <<us[1][k].declared_type, us[1][k].description>>]

\* detect_schema, lines 51-57: user_lookup; a later entry of a name
\* overwrites an earlier one
UserLookup(us) ==
    [name \in DeclaredNames(us) |->
        LET k == CHOOSE k \in 1..Len(us[1]) :
                    /\ us[1][k].name = name
                    /\ \A l \in (k + 1)..Len(us[1]) : us[1][l].name # name
        IN  <<us[1][k].declared_type, us[1][k].description>>]

\* A merge in which the user's declaration is not looked at.
ResolveType_IgnoreUser(col, column, user_lookup) ==
    <<_auto_detect_type(column.ser, column.nunique), EmptyString>>

\* lines 71-75: <<semantic_type, description>> of column col
ResolveType(col, column, user_lookup) ==
    IF col \in DOMAIN user_lookup THEN user_lookup[col]
    ELSE <<_auto_detect_type(column.ser, column.nunique), EmptyString>>

\* lines 77-85: ColumnMeta
ColumnMeta(col, column, user_lookup) ==
    [name |-> col,
     dtype |-> column.ser.dtype,
     semantic_type |-> ResolveType(col, column, user_lookup)[1],
     description |-> ResolveType(col, column, user_lookup)[2],
     n_unique |-> column.nunique]

\* A grouping whose second test is `if`, not `elif`: a numerical column
\* falls through to the else branch too.
InGroup_IfNotElif(type, group) ==
    IF group = "numerical" THEN type = "numerical"
    ELSE IF group = "datetime" THEN type = "datetime"
    ELSE type # "datetime"

\* lines 88-93: whether a column of semantic type `type` is appended to
\* the list `group`
InGroup(type, group) ==
    IF group = "numerical" THEN type = "numerical"
    ELSE IF group = "datetime" THEN type # "numerical" /\ type = "datetime"
    ELSE type # "numerical" /\ type # "datetime"

\* the names of a list of ColumnMeta that were appended to `group`, in order
GroupNames(metas, group) ==
    LET sel == SelectSeq(metas, LAMBDA m : InGroup(m.semantic_type, group))
    IN  [i \in 1..Len(sel) |-> sel[i].name]

\* detect_schema, lines 51-102
detect_schema(d, us) ==
    LET user_lookup == UserLookup(us)
        columns_meta == [i \in 1..Len(d) |-> ColumnMeta(Columns(d)[i], d[i], user_lookup)]
    IN  [n_cols |-> Len(Columns(d)),
         numerical_cols |-> GroupNames(columns_meta, "numerical"),
         categorical_cols |-> GroupNames(columns_meta, "categorical"),
         datetime_cols |-> GroupNames(columns_meta, "datetime"),
         columns |-> columns_meta]

\* UserColumnInfo entries naming a column of the dataset
UserColumnInfos(d, k) ==
    [name : {ColName(i) : i \in 1..Len(d)},
     declared_type : SemanticTypes,
     description : {Description(k)}]

\* the user schemas detect_schema can be handed for dataset d: None, or a
\* UserSchema whose entries name columns of d (what _build_user_schema
\* returns)
UserSchemas(d) ==
    {None} \cup
    {Some(us) : us \in UNION {
        {s \in [1..n -> UNION {UserColumnInfos(d, k) : k \in 1..n}] :
            \A k \in 1..n : s[k].description = Description(k)}
        : n \in 0..MaxDescriptors}}

InitSchemaOther ==
    /\ n_num = 0 /\ n_cat = 0 /\ num_slots = 0 /\ cat_slots = 0
    /\ num_surplus = 0 /\ cat_surplus = 0 /\ plots = <<>>
    /\ results = <<>> /\ remaining = 0 /\ corr = None /\ heatmap_made = FALSE
    /\ scatter_candidates = <<>> /\ bar_candidates = <<>>
    /\ n_scatter = 0 /\ n_bar = 0

InitSchema ==
    /\ pc = "schema_start"
    /\ \E n \in 0..MaxColumns : df \in [1..n -> ColumnKinds]
    /\ user_schema \in UserSchemas(df)
    /\ schema_info = None
    /\ series = None /\ n_unique = 0 /\ semantic_type = None
    /\ InertLater
    /\ InitSchemaOther

\* detect_schema(df, user_schema)
DetectSchema ==
    /\ pc = "schema_start"
    /\ schema_info' = detect_schema(df, user_schema)
    /\ pc' = "schema_done"
    /\ UNCHANGED <<uniVars, df, bivVars, user_schema, autoVars>>
    /\ UNCHANGED laterVars

NextSchema == DetectSchema

SpecSchema == InitSchema /\ [][NextSchema]_vars

InitAuto ==
    /\ pc = "auto_start"
    /\ series \in SeriesKinds
    /\ n_unique \in 0..MaxUnique
    /\ semantic_type = None
    /\ InertLater
    /\ df = None /\ schema_info = None /\ user_schema = None
    /\ InitSchemaOther

\* _auto_detect_type(series, n_unique)
AutoDetectType ==
    /\ pc = "auto_start"
    /\ semantic_type' = _auto_detect_type(series, n_unique)
    /\ pc' = "auto_done"
    /\ UNCHANGED <<uniVars, df, schema_info, bivVars, user_schema, series, n_unique>>
    /\ UNCHANGED laterVars

NextAuto == AutoDetectType

SpecAuto == InitAuto /\ [][NextAuto]_vars

\* the positions at which a name occurs in a list of names
Occurrences(name, names) == {i \in 1..Len(names) : names[i] = name}

\* the elements of a list
Elements(xs) == {xs[i] : i \in 1..Len(xs)}

(***************************************************************************)
(* C8: for every dataset and every optional user schema, the lists         *)
(* numerical_cols, categorical_cols and datetime_cols of detect_schema's   *)
(* result partition the dataset's columns: every column name is in exactly *)
(* one list (once), no list holds a name that is not a column, and n_cols  *)
(* equals the total length of the three lists.                             *)
(***************************************************************************)
C8_ColumnPartition ==
    pc = "schema_done" =>
        LET num == schema_info.numerical_cols
            cat == schema_info.categorical_cols
            dt == schema_info.datetime_cols
        IN  /\ \A name \in Elements(Columns(df)) :
                  Cardinality(Occurrences(name, num))
                  + Cardinality(Occurrences(name, cat))
                  + Cardinality(Occurrences(name, dt)) = 1
            /\ Elements(num) \cup Elements(cat) \cup Elements(dt)
                  \subseteq Elements(Columns(df))
            /\ schema_info.n_cols = Len(num) + Len(cat) + Len(dt)

\* two lists are non-empty, one of them through a user declaration
C8_Witness ==
    /\ pc = "schema_done" /\ user_schema # None
    /\ Len(schema_info.numerical_cols) = 1
    /\ Len(schema_info.datetime_cols) = 1
    /\ schema_info.numerical_cols[1] \in DeclaredNames(user_schema)
    /\ schema_info.datetime_cols[1] \notin DeclaredNames(user_schema)

\* the last entry of a user schema that declares column `name`
LastDeclaration(us, name) ==
    us[1][CHOOSE k \in 1..Len(us[1]) :
            /\ us[1][k].name = name
            /\ \A l \in 1..Len(us[1]) : us[1][l].name = name => l <= k]

(***************************************************************************)
(* C9: every column whose name appears in the user schema gets a           *)
(* ColumnMeta with the declared type and description unchanged (those of   *)
(* the name's entry; of its last entry, should the name be declared more   *)
(* than once), whatever the column's storage type and unique count; every  *)
(* column absent from the user schema gets the heuristic type and an empty *)
(* description.                                                            *)
(***************************************************************************)
C9_UserDeclarationWins ==
    pc = "schema_done" =>
        \A i \in 1..Len(df) :
            LET meta == schema_info.columns[i]
            IN  /\ meta.name = ColName(i)
                /\ IF ColName(i) \in DeclaredNames(user_schema)
                   THEN LET decl == LastDeclaration(user_schema, ColName(i))
                        IN  /\ meta.semantic_type = decl.declared_type
                            /\ meta.description = decl.description
                   ELSE /\ meta.semantic_type
                              = _auto_detect_type(df[i].ser, df[i].nunique)
                        /\ meta.description = EmptyString

\* a declared column whose declared type is not the heuristic one, next to
\* an undeclared column
C9_Witness ==
    /\ pc = "schema_done" /\ Len(df) = 2
    /\ ColName(1) \in DeclaredNames(user_schema)
    /\ ColName(2) \notin DeclaredNames(user_schema)
    /\ schema_info.columns[1].semantic_type
          # _auto_detect_type(df[1].ser, df[1].nunique)
    /\ schema_info.columns[1].description # EmptyString

(***************************************************************************)
(* C10: without a user override, a boolean-typed column is classified      *)
(* categorical for every unique-value count: the boolean rule comes before *)
(* the numeric-storage rule, which would call it numerical above 20.       *)
(***************************************************************************)
C10_BooleanIsCategorical ==
    (pc = "auto_done" /\ series.dtype = "bool") => semantic_type = "categorical"

\* a boolean series with more than 20 unique values reported
C10_Witness ==
    /\ pc = "auto_done" /\ series.dtype = "bool"
    /\ n_unique > MAX_UNIQUE_FOR_CATEGORICAL
    /\ semantic_type = "categorical"

(***************************************************************************)
(* C11: without a user override, a non-boolean numeric-storage column is   *)
(* classified numerical if and only if its unique-value count is strictly  *)
(* greater than 20, and categorical otherwise: exactly 20 gives            *)
(* categorical and exactly 21 gives numerical.                             *)
(***************************************************************************)
C11_NumericCardinalityThreshold ==
    (pc = "auto_done" /\ series.dtype \in {"int64", "float64"}) =>
        /\ semantic_type = (IF n_unique > 20 THEN "numerical" ELSE "categorical")
        /\ n_unique = 20 => semantic_type = "categorical"
        /\ n_unique = 21 => semantic_type = "numerical"

\* an integer series with exactly 21 unique values, classified numerical
C11_Witness ==
    /\ pc = "auto_done" /\ series.dtype = "int64"
    /\ n_unique = 21 /\ semantic_type = "numerical"

(***************************************************************************)
(* modules/schema_parser.py: _build_user_schema.                           *)
(*                                                                         *)
(* A str is the sequence of its characters.  The characters are two        *)
(* letters in both cases, a third lower-case letter and the space.         *)
(***************************************************************************)
\* most descriptors of raw["columns"]
MaxEntries == 2

\* the cutoff of get_close_matches, line 127, in tenths
cutoff == 6

\* Python's ord() on the characters of the model
ord(ch) ==
    CASE ch = " " -> 32 [] ch = "A" -> 65 [] ch = "B" -> 66
      [] ch = "a" -> 97 [] ch = "b" -> 98 [] ch = "c" -> 99

\* str.lower()
lower(str) ==
    [i \in 1..Len(str) |-> CASE str[i] = "A" -> "a" [] str[i] = "B" -> "b"
                             [] OTHER -> str[i]]

\* str.strip(): the spaces at both ends are removed
RECURSIVE strip(_)
strip(str) ==
    IF str = <<>> THEN str
    ELSE IF Head(str) = " " THEN strip(Tail(str))
    ELSE IF str[Len(str)] = " " THEN strip(SubSeq(str, 1, Len(str) - 1))
    ELSE str

\* str < str, by code points
RECURSIVE StrLess(_, _)
StrLess(x, y) ==
    IF y = <<>> THEN FALSE
    ELSE IF x = <<>> THEN TRUE
    ELSE IF Head(x) # Head(y) THEN ord(Head(x)) < ord(Head(y))
    ELSE StrLess(Tail(x), Tail(y))

\* list.index(x): the first position of x, from 1
index(xs, x) == CHOOSE i \in 1..Len(xs) : xs[i] = x /\ \A j \in 1..(i - 1) : xs[j] # x

\* x in xs
In(x, xs) == \E i \in 1..Len(xs) : xs[i] = x

\* difflib.SequenceMatcher.find_longest_match(alo, ahi, blo, bhi) without
\* junk: <<i, j, k>> with a[i:i+k] == b[j:j+k], k largest, then i smallest,
\* then j smallest; <<alo, blo, 0>> when nothing matches.  Positions count
\* from 0 as in the source.
find_longest_match(a, b, alo, ahi, blo, bhi) ==
    LET blocks == {ijk \in (alo..(ahi - 1)) \X (blo..(bhi - 1)) \X (1..(ahi - alo)) :
                      /\ ijk[1] + ijk[3] <= ahi
                      /\ ijk[2] + ijk[3] <= bhi
                      /\ \A d \in 0..(ijk[3] - 1) :
                            a[ijk[1] + d + 1] = b[ijk[2] + d + 1]}
        better(p, q) == \/ p[3] > q[3]
                        \/ p[3] = q[3] /\ p[1] < q[1]
                        \/ p[3] = q[3] /\ p[1] = q[1] /\ p[2] < q[2]
    IN  IF blocks = {} THEN <<alo, blo, 0>>
        ELSE CHOOSE p \in blocks : \A q \in blocks \ {p} : better(p, q)

\* difflib.SequenceMatcher.get_matching_blocks(): the sum of the sizes of
\* the blocks found left of, at and right of the longest match
RECURSIVE MatchingSize(_, _, _, _, _, _)
MatchingSize(a, b, alo, ahi, blo, bhi) ==
    IF alo >= ahi \/ blo >= bhi THEN 0
    ELSE LET m == find_longest_match(a, b, alo, ahi, blo, bhi)
         IN  IF m[3] = 0 THEN 0
             ELSE MatchingSize(a, b, alo, m[1], blo, m[2])
                  + m[3]
                  + MatchingSize(a, b, m[1] + m[3], ahi, m[2] + m[3], bhi)

\* difflib.SequenceMatcher(a, b).ratio() as the fraction <<2 * matches,
\* length>>; with length 0 the ratio is 1.0
ratio(a, b) ==
    IF Len(a) + Len(b) = 0 THEN <<1, 1>>
    ELSE <<2 * MatchingSize(a, b, 0, Len(a), 0, Len(b)), Len(a) + Len(b)>>

\* ratio >= cutoff
AtLeastCutoff(r) == 10 * r[1] >= cutoff * r[2]

\* (score, x) > (score, x) of two scored possibilities
ScoredGreater(word, x, y) ==
    LET rx == ratio(x, word)
        ry == ratio(y, word)
    IN  \/ rx[1] * ry[2] > ry[1] * rx[2]
        \/ rx[1] * ry[2] = ry[1] * rx[2] /\ StrLess(y, x)

\* difflib.get_close_matches(word, possibilities, n=1, cutoff=0.6): the
\* possibility whose (score, x) is largest among those that score at
\* least the cutoff, as a list of at most one
get_close_matches(word, possibilities) ==
    LET result == {x \in {possibilities[i] : i \in 1..Len(possibilities)} :
                      AtLeastCutoff(ratio(x, word))}
    IN  IF result = {} THEN <<>>
        ELSE <<CHOOSE x \in result :
                   \A y \in result \ {x} : ScoredGreater(word, x, y)>>

\* The text of a declared type: a word, possibly written with capitals,
\* possibly surrounded by spaces.  strip() removes the spaces and lower()
\* the capitals.
TypeText(word, cased, padded) ==
    [word |-> word, cased |-> cased, padded |-> padded]
TypeStrip(t) == [t EXCEPT !.padded = FALSE]
TypeLower(t) == [t EXCEPT !.cased = FALSE]
Literal(word) == TypeText(word, FALSE, FALSE)

\* line 111: the set the declared type is tested against
DeclarableTypes == {Literal("numerical"), Literal("categorical"), Literal("datetime")}

\* A reading of the type that leaves it as it was declared.
col_type_AsDeclared(entry) ==
    IF entry.type = None THEN Literal("categorical") ELSE entry.type[1]

\* lines 107 and 111-112: col_type
col_type(entry) ==
    LET declared == IF entry.type = None THEN Literal("categorical")
                    ELSE entry.type[1]
        text == TypeLower(TypeStrip(declared))
    IN  IF text \notin DeclarableTypes THEN Literal("categorical") ELSE text

\* line 106: name
entry_name(entry) ==
    strip(IF entry.name = None THEN EmptyString ELSE entry.name[1])

\* line 103: lower_csv
lower_csv(columns) == [i \in 1..Len(columns) |-> lower(columns[i])]

UserColumnInfo(name, declared_type, description) ==
    [name |-> name, declared_type |-> declared_type, description |-> description]

\* A fuzzy match that hands back the lower-cased name it found.
real_name_Lowered(columns, lowered) == lowered

\* lines 122 and 129: the real name at the first position of the lowered
\* name in lower_csv
real_name(columns, lowered) == columns[index(lower_csv(columns), lowered)]

\* lines 105-132, one pass of the loop: what the entry appends to matched.
\* "exact", "lower", "fuzzy" or "none" is the step that settled it.
MatchStep(entry, columns) ==
    LET name == entry_name(entry)
        lower_name == lower(name)
    IN  IF In(name, columns) THEN "exact"
        ELSE IF In(lower_name, lower_csv(columns)) THEN "lower"
        ELSE IF get_close_matches(lower_name, lower_csv(columns)) # <<>> THEN "fuzzy"
        ELSE "none"

MatchEntry(entry, columns) ==
    LET name == entry_name(entry)
        lower_name == lower(name)
        step == MatchStep(entry, columns)
    IN  IF step = "exact"
        THEN <<UserColumnInfo(name, col_type(entry), entry.description)>>
        ELSE IF step = "lower"
        THEN <<UserColumnInfo(real_name(columns, lower_name),
                              col_type(entry), entry.description)>>
        ELSE IF step = "fuzzy"
        THEN <<UserColumnInfo(
                   real_name(columns,
                             get_close_matches(lower_name, lower_csv(columns))[1]),
                   col_type(entry), entry.description)>>
        ELSE <<>>

\* The real column names of the model: a name, the same name in capitals
\* and the same name behind a space (read_csv keeps the spaces of a header).
CsvNames == { <<"a", "b">>, <<"A", "B">>, <<" ", "a", "b">> }

\* The lists csv_columns can be: the names of a frame are distinct.
CsvColumnLists ==
    UNION {{cols \in [1..n -> CsvNames] :
               \A i, j \in 1..n : cols[i] = cols[j] => i = j}
           : n \in 0..Cardinality(CsvNames)}

\* The names a descriptor declares (None would be a descriptor without
\* "name", which is read as the empty name).
DeclaredNameTexts ==
    { Some(<<"a", "b">>), Some(<<" ", "a", "b">>),
      Some(<<"a", "b", "c">>), Some(<<"c">>) }

\* The types a descriptor declares: None is a descriptor without "type".
DeclaredTypeTexts ==
    { None,
      Some(Literal("numerical")),
      Some(TypeText("datetime", TRUE, TRUE)),
      Some(Literal("text")) }

\* the k-th descriptor of raw["columns"]
Entries(k) ==
    [name : DeclaredNameTexts, type : DeclaredTypeTexts,
     description : {Description(k)}]

\* raw["columns"]: a list of descriptors, or something that is not a list
ColumnsRaw ==
    {[is_list |-> FALSE, items |-> <<>>]} \cup
    {[is_list |-> TRUE, items |-> es] : es \in UNION {
        {s \in [1..n -> UNION {Entries(k) : k \in 1..n}] :
            \A k \in 1..n : s[k].description = Description(k)}
        : n \in 0..MaxEntries}}

InitParseOther ==
    /\ df = None /\ schema_info = None /\ user_schema = None
    /\ series = None /\ n_unique = 0 /\ semantic_type = None
    /\ InitSchemaOther

InitParse ==
    /\ pc = "parse_start"
    /\ columns_raw \in ColumnsRaw
    /\ csv_columns \in CsvColumnLists
    /\ matched = <<>> /\ entry_i = 0
    /\ InertEta /\ InertSelect /\ InertRetry /\ InertPipe
    /\ InitParseOther

\* lines 99-101: raw["columns"] is not a list, an empty UserSchema
BuildNotList ==
    /\ pc = "parse_start"
    /\ ~columns_raw.is_list
    /\ matched' = <<>>
    /\ pc' = "parse_done"
    /\ UNCHANGED <<columns_raw, csv_columns, entry_i>>
    /\ UNCHANGED <<uniVars, df, schema_info, bivVars, user_schema, autoVars>>
    /\ UNCHANGED <<etaVars, selectVars, retryVars, pipeVars>>

\* lines 103-104: the loop is entered
BuildStart ==
    /\ pc = "parse_start"
    /\ columns_raw.is_list
    /\ matched' = <<>>
    /\ entry_i' = 0
    /\ pc' = "parse_loop"
    /\ UNCHANGED <<columns_raw, csv_columns>>
    /\ UNCHANGED <<uniVars, df, schema_info, bivVars, user_schema, autoVars>>
    /\ UNCHANGED <<etaVars, selectVars, retryVars, pipeVars>>

\* lines 105-132: one pass of the loop
BuildEntry ==
    /\ pc = "parse_loop"
    /\ entry_i < Len(columns_raw.items)
    /\ matched' = matched \o MatchEntry(columns_raw.items[entry_i + 1], csv_columns)
    /\ entry_i' = entry_i + 1
    /\ UNCHANGED <<pc, columns_raw, csv_columns>>
    /\ UNCHANGED <<uniVars, df, schema_info, bivVars, user_schema, autoVars>>
    /\ UNCHANGED <<etaVars, selectVars, retryVars, pipeVars>>

\* line 134: UserSchema(columns=matched) is returned
BuildReturn ==
    /\ pc = "parse_loop"
    /\ entry_i = Len(columns_raw.items)
    /\ pc' = "parse_done"
    /\ UNCHANGED <<columns_raw, csv_columns, matched, entry_i>>
    /\ UNCHANGED <<uniVars, df, schema_info, bivVars, user_schema, autoVars>>
    /\ UNCHANGED <<etaVars, selectVars, retryVars, pipeVars>>

NextParse == BuildNotList \/ BuildStart \/ BuildEntry \/ BuildReturn

SpecParse == InitParse /\ [][NextParse]_vars

\* The descriptors the loop has been through, and what descriptor k left
\* in matched (its description tells which descriptor an entry came from).
ParseRunning == pc \in {"parse_loop", "parse_done"}
Processed == IF ParseRunning THEN 1..entry_i ELSE {}
MatchedFor(k) ==
    LET from(info) == info.description = Description(k)
    IN  SelectSeq(matched, from)

(***************************************************************************)
(* C12: per descriptor the matching follows a strict precedence.  A        *)
(* declared name equal to a real column name resolves to that column;      *)
(* otherwise one equal to a real name ignoring case resolves to a column   *)
(* with that lower-cased name; otherwise the outcome is that of the fuzzy  *)
(* match.  No other column displaces an exact match.                       *)
(***************************************************************************)
C12_MatchPrecedence ==
    \A k \in Processed :
        LET entry == columns_raw.items[k]
            declared == IF entry.name = None THEN EmptyString ELSE entry.name[1]
            got == MatchedFor(k)
            close == get_close_matches(lower(declared), lower_csv(csv_columns))
        IN  IF In(declared, csv_columns)
            THEN Len(got) = 1 /\ got[1].name = declared
            ELSE IF In(lower(declared), lower_csv(csv_columns))
            THEN Len(got) = 1 /\ lower(got[1].name) = lower(declared)
            ELSE IF close # <<>>
            THEN Len(got) = 1 /\ lower(got[1].name) = close[1]
            ELSE got = <<>>

\* The same precedence holds of the name the code compares, the declared
\* name without the spaces at its ends (line 106).
TrimmedNamePrecedence ==
    \A k \in Processed :
        LET name == entry_name(columns_raw.items[k])
            got == MatchedFor(k)
            close == get_close_matches(lower(name), lower_csv(csv_columns))
        IN  IF In(name, csv_columns)
            THEN Len(got) = 1 /\ got[1].name = name
            ELSE IF In(lower(name), lower_csv(csv_columns))
            THEN /\ Len(got) = 1
                 /\ got[1].name = csv_columns[index(lower_csv(csv_columns), lower(name))]
            ELSE IF close # <<>>
            THEN /\ Len(got) = 1
                 /\ got[1].name = csv_columns[index(lower_csv(csv_columns), close[1])]
            ELSE got = <<>>

(***************************************************************************)
(* C13: _build_user_schema returns at most one matched column per          *)
(* descriptor, in descriptor order; every returned name is one of the real *)
(* column names; a descriptor that matches nothing leaves no entry and     *)
(* what the other descriptors leave is what each of them leaves alone.     *)
(***************************************************************************)
C13_OneRealColumnPerDescriptor ==
    ParseRunning =>
        /\ \A k \in 1..Len(columns_raw.items) :
              /\ Len(MatchedFor(k)) <= 1
              /\ k \in Processed => MatchedFor(k) = MatchEntry(columns_raw.items[k], csv_columns)
              /\ k \notin Processed => MatchedFor(k) = <<>>
        /\ \A i, j \in 1..Len(matched) :
              i < j => matched[i].description[2] < matched[j].description[2]
        /\ \A i \in 1..Len(matched) : In(matched[i].name, csv_columns)
        /\ Len(matched) <= entry_i

\* two descriptors were read: the first matched nothing, the second
\* resolved by another step than the exact one
C13_Witness ==
    /\ pc = "parse_done" /\ Len(columns_raw.items) = 2
    /\ MatchStep(columns_raw.items[1], csv_columns) = "none"
    /\ MatchStep(columns_raw.items[2], csv_columns) \in {"lower", "fuzzy"}
    /\ Len(matched) = 1 /\ matched[1].description = Description(2)

(***************************************************************************)
(* C14: every column _build_user_schema returns has a declared_type in     *)
(* {numerical, categorical, datetime}: a declared type that is outside the *)
(* set once trimmed and lower-cased, or that is missing, becomes           *)
(* categorical, and one inside the set is kept in its trimmed, lower-case  *)
(* form.                                                                   *)
(***************************************************************************)
C14_DeclaredTypeCoerced ==
    ParseRunning =>
        \A i \in 1..Len(matched) :
            LET entry == columns_raw.items[matched[i].description[2]]
            IN  /\ matched[i].declared_type \in
                       {Literal("numerical"), Literal("categorical"), Literal("datetime")}
                /\ entry.type = None => matched[i].declared_type = Literal("categorical")
                /\ entry.type # None =>
                       LET text == [word |-> entry.type[1].word,
                                    cased |-> FALSE, padded |-> FALSE]
                       IN  matched[i].declared_type =
                               IF text.word \in {"numerical", "categorical", "datetime"}
                               THEN text ELSE Literal("categorical")

\* a returned column whose descriptor declared a type outside the set, and
\* one whose descriptor declared a type in capitals between spaces
C14_Witness ==
    /\ pc = "parse_done" /\ Len(matched) = 2
    /\ columns_raw.items[matched[1].description[2]].type = Some(Literal("text"))
    /\ matched[1].declared_type = Literal("categorical")
    /\ columns_raw.items[matched[2].description[2]].type
           = Some(TypeText("datetime", TRUE, TRUE))
    /\ matched[2].declared_type = Literal("datetime")

(***************************************************************************)
(* modules/bivariate_plots.py: _compute_eta_squared and                    *)
(* _rank_grouped_bar_pairs on the rows of a frame.                         *)
(*                                                                         *)
(* A cell is None (a null) or Some(value).  A float64 is a finite number   *)
(* or +inf, which read_csv reads from "inf" and dropna() keeps; a result   *)
(* is a fraction num / den, computed exactly, or nan.                      *)
(***************************************************************************)
\* most rows of the frame
MaxRows == 3

Finite(v) == [inf |-> FALSE, v |-> v]
PosInf == [inf |-> TRUE, v |-> 0]

Fraction(num, den) == [nan |-> FALSE, num |-> num, den |-> den]
NotANumber == [nan |-> TRUE, num |-> 0, den |-> 1]
Zero == Fraction(0, 1)

\* float < float: every comparison with nan is False
FloatLess(a, b) == ~a.nan /\ ~b.nan /\ a.num * b.den < b.num * a.den

\* sum(f[d] for d in DOMAIN f)
RECURSIVE SumOf(_)
SumOf(f) ==
    IF DOMAIN f = {} THEN 0
    ELSE LET d == CHOOSE d \in DOMAIN f : TRUE
         IN  f[d] + SumOf([e \in DOMAIN f \ {d} |-> f[e]])

\* line 276: df[[cat_col, num_col]].dropna(), the positions of the rows
\* that are kept
dropna(d, cat_col, num_col) ==
    {i \in 1..Len(d) : d[i][cat_col] # None /\ d[i][num_col] # None}

\* the product of f[d] for d in DOMAIN f
RECURSIVE ProductOf(_)
ProductOf(f) ==
    IF DOMAIN f = {} THEN 1
    ELSE LET d == CHOOSE d \in DOMAIN f : TRUE
         IN  f[d] * ProductOf([e \in DOMAIN f \ {d} |-> f[e]])

\* lines 280-285: the groups of subset.groupby(cat_col), by their key
GroupKeys(d, subset, cat_col) == {d[i][cat_col] : i \in subset}
Group(d, subset, cat_col, key) == {i \in subset : d[i][cat_col] = key}

\* the sum of the finite values of num_col over the rows
Total(d, rows, num_col) == SumOf([i \in rows |-> d[i][num_col][1].v])

\* Whether the rows hold +inf in num_col, and nothing else.
SomeInf(d, rows, num_col) == \E i \in rows : d[i][num_col][1].inf
AllInf(d, rows, num_col) == \A i \in rows : d[i][num_col][1].inf

\* lines 289-290 for finite values, multiplied by n * n so that grand_mean
\* needs no division: sum over the rows of (n * x - total) ** 2
ss_total(d, subset, num_col) ==
    LET n == Cardinality(subset)
        total == Total(d, subset, num_col)
        dev(i) == n * d[i][num_col][1].v - total
    IN  SumOf([i \in subset |-> dev(i) * dev(i)])

\* the product of the group sizes
GroupScale(d, subset, cat_col) ==
    ProductOf([key \in GroupKeys(d, subset, cat_col) |->
                  Cardinality(Group(d, subset, cat_col, key))])

\* lines 294-296 for finite values, multiplied by n * n and by the product
\* of the group sizes: sum over the groups of
\* (n * sum(g) - len(g) * total) ** 2 / len(g)
ss_between(d, subset, cat_col, num_col) ==
    LET n == Cardinality(subset)
        total == Total(d, subset, num_col)
        g(key) == Group(d, subset, cat_col, key)
        dev(key) == n * Total(d, g(key), num_col) - Cardinality(g(key)) * total
    IN  SumOf([key \in GroupKeys(d, subset, cat_col) |->
                  dev(key) * dev(key)
                  * (GroupScale(d, subset, cat_col) \div Cardinality(g(key)))])

\* line 291: ss_total == 0.  With +inf among finite values grand_mean is
\* inf and ss_total is inf; when every value is +inf each
\* (x - grand_mean) ** 2 is nan, np.sum of the Series skips them and
\* ss_total is 0.
ZeroVariance(d, subset, num_col) ==
    IF AllInf(d, subset, num_col) THEN TRUE
    ELSE IF SomeInf(d, subset, num_col) THEN FALSE
    ELSE ss_total(d, subset, num_col) = 0

\* line 297: ss_between / ss_total.  With +inf among the values the group
\* that holds it has mean inf, inf - inf is nan and so are ss_between and
\* the quotient.
Quotient(d, subset, cat_col, num_col) ==
    IF SomeInf(d, subset, num_col) THEN NotANumber
    ELSE Fraction(ss_between(d, subset, cat_col, num_col),
                  GroupScale(d, subset, cat_col) * ss_total(d, subset, num_col))

\* An eta-squared that tests the variance before it counts the groups.
_compute_eta_squared_rows_VarianceFirst(d, cat_col, num_col) ==
    LET subset == dropna(d, cat_col, num_col)
    IN  IF subset = {} THEN None
        ELSE IF ZeroVariance(d, subset, num_col) THEN Some(Zero)
        ELSE IF Cardinality(GroupKeys(d, subset, cat_col)) < 2 THEN None
        ELSE Some(Quotient(d, subset, cat_col, num_col))

\* _compute_eta_squared, lines 275-297, on the rows of the frame
_compute_eta_squared_rows(d, cat_col, num_col) ==
    LET subset == dropna(d, cat_col, num_col)
    IN  IF subset = {} THEN None
        ELSE IF Cardinality(GroupKeys(d, subset, cat_col)) < 2 THEN None
        ELSE IF ZeroVariance(d, subset, num_col) THEN Some(Zero)
        ELSE Some(Quotient(d, subset, cat_col, num_col))

\* list.reverse()
Reverse(xs) == [i \in 1..Len(xs) |-> xs[Len(xs) + 1 - i]]

\* CPython's count_run on the keys ks from position i: the length of the
\* run that starts the list, descending when ks[2] < ks[1]
RECURSIVE count_run(_, _, _)
count_run(ks, i, descending) ==
    IF i > Len(ks) THEN Len(ks)
    ELSE IF FloatLess(ks[i], ks[i - 1]) = descending
         THEN count_run(ks, i + 1, descending)
    ELSE i - 1

\* CPython's binarysort, the search: where the pivot goes among the first r
\* positions of order (positions from 0, as in the source)
RECURSIVE InsertionPoint(_, _, _, _, _)
InsertionPoint(keys, order, pivot, l, r) ==
    IF l >= r THEN l
    ELSE LET p == l + ((r - l) \div 2)
         IN  IF FloatLess(keys[pivot], keys[order[p + 1]])
             THEN InsertionPoint(keys, order, pivot, l, p)
             ELSE InsertionPoint(keys, order, pivot, p + 1, r)

\* CPython's binarysort: order[start:] is inserted into the sorted
\* order[:start], one element at a time
RECURSIVE binarysort(_, _, _)
binarysort(keys, order, start) ==
    IF start >= Len(order) THEN order
    ELSE LET pivot == order[start + 1]
             l == InsertionPoint(keys, order, pivot, 0, start)
         IN  binarysort(keys,
                        SubSeq(order, 1, l) \o <<pivot>>
                            \o SubSeq(order, l + 1, start)
                            \o SubSeq(order, start + 2, Len(order)),
                        start + 1)

\* list.sort(key=..., reverse=True) of a list of fewer than 64 elements
\* whose keys are floats: the positions of the elements in their new order.
\* The list is reversed, sorted with < (the run at its start, then binary
\* insertion) and reversed again.
list_sort_reverse(keys) ==
    LET n == Len(keys)
        reversed == [i \in 1..n |-> n + 1 - i]
        ks == [i \in 1..n |-> keys[reversed[i]]]
        descending == FloatLess(ks[2], ks[1])
        run == count_run(ks, 3, descending)
        start == IF descending
                 THEN Reverse(SubSeq(reversed, 1, run)) \o SubSeq(reversed, run + 1, n)
                 ELSE reversed
    IN  IF n < 2 THEN [i \in 1..n |-> i]
        ELSE Reverse(binarysort(keys, start, run))

\* _rank_grouped_bar_pairs, lines 246-250, on the rows of the frame: the
\* pairs <<cat_col, num_col, eta_sq>>
RECURSIVE RowBarPairs(_, _, _, _, _)
RowBarPairs(d, categorical_cols, numerical_cols, i, j) ==
    IF i > Len(categorical_cols) THEN <<>>
    ELSE IF j > Len(numerical_cols)
         THEN RowBarPairs(d, categorical_cols, numerical_cols, i + 1, 1)
    ELSE LET eta_sq == _compute_eta_squared_rows(d, categorical_cols[i],
                                                 numerical_cols[j])
         IN  (IF eta_sq # None
              THEN <<<<categorical_cols[i], numerical_cols[j], eta_sq[1]>>>>
              ELSE <<>>)
             \o RowBarPairs(d, categorical_cols, numerical_cols, i, j + 1)

\* _rank_grouped_bar_pairs, lines 241-253, on the rows of the frame
_rank_grouped_bar_pairs_rows(d, categorical_cols, numerical_cols) ==
    IF categorical_cols = <<>> \/ numerical_cols = <<>> THEN <<>>
    ELSE LET found == RowBarPairs(d, categorical_cols, numerical_cols, 1, 1)
             order == list_sort_reverse([i \in 1..Len(found) |-> found[i][3]])
         IN  [p \in 1..Len(found) |-> found[order[p]]]

\* The rows of a frame with a categorical column cat and the numerical
\* columns x and y.
FrameRows ==
    [cat : {None, Some("a"), Some("b")},
     x : {None, Some(Finite(0)), Some(Finite(1)), Some(PosInf)},
     y : {Some(Finite(0)), Some(Finite(1))}]

InitEtaOther ==
    /\ user_schema = None
    /\ series = None /\ n_unique = 0 /\ semantic_type = None
    /\ InitSchemaOther

InitEta ==
    /\ pc = "eta_start"
    /\ \E n \in 0..MaxRows : df \in [1..n -> FrameRows]
    /\ schema_info = [numerical_cols |-> <<"x", "y">>,
                      categorical_cols |-> <<"cat">>]
    /\ eta_result = None /\ ranked_pairs = <<>>
    /\ InertParse /\ InertSelect /\ InertRetry /\ InertPipe
    /\ InitEtaOther

\* _compute_eta_squared(df, "cat", "x")
ComputeEtaSquared ==
    /\ pc = "eta_start"
    /\ eta_result' = _compute_eta_squared_rows(df, "cat", "x")
    /\ pc' = "eta_done"
    /\ UNCHANGED <<ranked_pairs, uniVars, df, schema_info, bivVars, user_schema, autoVars>>
    /\ UNCHANGED <<parseVars, selectVars, retryVars, pipeVars>>

\* _rank_grouped_bar_pairs(df, categorical_cols, numerical_cols)
RankGroupedBarPairs ==
    /\ pc = "eta_start"
    /\ ranked_pairs' = _rank_grouped_bar_pairs_rows(df, schema_info.categorical_cols,
                                                    schema_info.numerical_cols)
    /\ pc' = "rank_done"
    /\ UNCHANGED <<eta_result, uniVars, df, schema_info, bivVars, user_schema, autoVars>>
    /\ UNCHANGED <<parseVars, selectVars, retryVars, pipeVars>>

NextEta == ComputeEtaSquared \/ RankGroupedBarPairs

SpecEta == InitEta /\ [][NextEta]_vars

\* The rows _compute_eta_squared(df, "cat", "x") keeps and their groups.
Retained == dropna(df, "cat", "x")
RetainedGroups == GroupKeys(df, Retained, "cat")

\* a >= b on floats: False when either is nan
FloatAtLeast(a, b) == ~a.nan /\ ~b.nan /\ a.num * b.den >= b.num * a.den

\* value is a number of [0, 1]
InUnitInterval(value) ==
    ~value.nan /\ FloatAtLeast(value, Zero) /\ FloatAtLeast(Fraction(1, 1), value)

(***************************************************************************)
(* C15: whenever _compute_eta_squared returns a number, the number lies    *)
(* in [0, 1].                                                              *)
(***************************************************************************)
C15_EtaSquaredInUnitInterval ==
    (pc = "eta_done" /\ eta_result # None) => InUnitInterval(eta_result[1])

\* On finite values the returned number does lie in [0, 1]: ss_between
\* never exceeds ss_total.
FiniteEtaSquaredInUnitInterval ==
    (pc = "eta_done" /\ eta_result # None /\ ~SomeInf(df, Retained, "x")) =>
        /\ InUnitInterval(eta_result[1])
        /\ ss_between(df, Retained, "cat", "x")
               <= GroupScale(df, Retained, "cat") * ss_total(df, Retained, "x")

(***************************************************************************)
(* C16: _compute_eta_squared returns None, not 0, when no row is left      *)
(* after the rows with a null in either column are dropped or when the     *)
(* rows left form fewer than 2 groups; it returns exactly 0.0 when they    *)
(* form at least 2 groups and the numerical values do not vary.  The       *)
(* groups are counted first: one group of a constant column gives None.    *)
(***************************************************************************)
C16_NotComputableBeforeZero ==
    pc = "eta_done" =>
        /\ (Retained = {} \/ Cardinality(RetainedGroups) < 2) => eta_result = None
        /\ ( /\ Cardinality(RetainedGroups) >= 2
             /\ \A i, j \in Retained : df[i].x = df[j].x ) => eta_result = Some(Zero)

\* a constant numerical column whose rows, one of them dropped for its
\* null, are all in one group: None
C16_Witness ==
    /\ pc = "eta_done"
    /\ Cardinality(Retained) >= 2 /\ Cardinality(Retained) < Len(df)
    /\ Cardinality(RetainedGroups) = 1
    /\ \A i, j \in Retained : df[i].x = df[j].x
    /\ eta_result = None

\* The pairs _rank_grouped_bar_pairs is handed, and the eta-squared of one.
BarPairsOffered ==
    {<<schema_info.categorical_cols[i], schema_info.numerical_cols[j]>> :
        i \in 1..Len(schema_info.categorical_cols),
        j \in 1..Len(schema_info.numerical_cols)}
EtaSquaredOf(pair) == _compute_eta_squared_rows(df, pair[1], pair[2])

(***************************************************************************)
(* C18: _rank_grouped_bar_pairs returns every (categorical, numerical)     *)
(* pair whose eta-squared is computable, those of eta-squared 0.0          *)
(* included, each with its eta-squared, and no pair whose eta-squared is   *)
(* not computable; the result is sorted by eta-squared descending.         *)
(***************************************************************************)
C18_ComputablePairsRankedDescending ==
    pc = "rank_done" =>
        /\ \A pair \in BarPairsOffered :
              /\ Cardinality({k \in 1..Len(ranked_pairs) :
                     <<ranked_pairs[k][1], ranked_pairs[k][2]>> = pair})
                   = IF EtaSquaredOf(pair) # None THEN 1 ELSE 0
        /\ \A k \in 1..Len(ranked_pairs) :
              /\ <<ranked_pairs[k][1], ranked_pairs[k][2]>> \in BarPairsOffered
              /\ Some(ranked_pairs[k][3])
                     = EtaSquaredOf(<<ranked_pairs[k][1], ranked_pairs[k][2]>>)
        /\ \A k \in 1..(Len(ranked_pairs) - 1) :
              FloatAtLeast(ranked_pairs[k][3], ranked_pairs[k + 1][3])

\* On finite values the ranking is as described.
FiniteBarPairsRankedDescending ==
    (\A i \in 1..Len(df) : df[i].x # None => ~df[i].x[1].inf)
        => C18_ComputablePairsRankedDescending

\* generate_bivariate_plots has ranked its candidates (line 67).
BivRanked ==
    pc \in {"biv_allocate", "biv_plots", "biv_done"}
        /\ Len(schema_info.numerical_cols) > 0

\* The pairs of positions of numerical columns, first before second, and
\* the correlation of the columns at a pair.
NumericalPairs ==
    {ij \in (1..Len(schema_info.numerical_cols)) \X (1..Len(schema_info.numerical_cols)) :
        ij[1] < ij[2]}
CorrelationAt(ij) ==
    Pearson(df, schema_info.numerical_cols[ij[1]], schema_info.numerical_cols[ij[2]])
CandidateAt(ij) ==
    <<schema_info.numerical_cols[ij[1]], schema_info.numerical_cols[ij[2]],
      CorrelationAt(ij).r>>

(***************************************************************************)
(* C17: _rank_scatter_pairs returns a pair of numerical columns if and     *)
(* only if its correlation is defined and |r| >= 0.3, a pair of |r| = 0.3  *)
(* included; each unordered pair appears at most once; the result is       *)
(* sorted by |r| descending and pairs of equal |r| keep the order of the   *)
(* input; it is empty with fewer than 2 numerical columns.                 *)
(***************************************************************************)
C17_ScatterPairsRanked ==
    BivRanked =>
        /\ \A ij \in NumericalPairs :
              (\E k \in 1..Len(scatter_candidates) :
                    scatter_candidates[k] = CandidateAt(ij))
                  <=> (~CorrelationAt(ij).nan /\ abs(CorrelationAt(ij).r) >= 30)
        /\ \A k \in 1..Len(scatter_candidates) :
              \E ij \in NumericalPairs : scatter_candidates[k] = CandidateAt(ij)
        /\ \A k, l \in 1..Len(scatter_candidates) :
              k # l => {scatter_candidates[k][1], scatter_candidates[k][2]}
                           # {scatter_candidates[l][1], scatter_candidates[l][2]}
        /\ \A k, l \in 1..Len(scatter_candidates) :
              k < l =>
                  LET a == scatter_candidates[k]
                      b == scatter_candidates[l]
                  IN  /\ abs(a[3]) >= abs(b[3])
                      /\ abs(a[3]) = abs(b[3]) =>
                            \/ a[1][2] < b[1][2]
                            \/ a[1][2] = b[1][2] /\ a[2][2] < b[2][2]
        /\ Len(schema_info.numerical_cols) < 2 => scatter_candidates = <<>>

\* a ranking with two pairs of |r| exactly 0.3 behind a pair of larger |r|,
\* from columns that also have a pair whose correlation is undefined
C17_Witness ==
    /\ BivRanked
    /\ \E ij \in NumericalPairs : CorrelationAt(ij).nan
    /\ \E k \in 1..(Len(scatter_candidates) - 2) :
          /\ abs(scatter_candidates[k][3]) > 30
          /\ abs(scatter_candidates[k + 1][3]) = 30
          /\ abs(scatter_candidates[k + 2][3]) = 30

(***************************************************************************)
(* modules/univariate_plots.py: _select_numerical_columns and              *)
(* _select_categorical_columns.                                            *)
(***************************************************************************)
\* What df[col].var() does on a numerical column of the schema: it returns
\* a variance, it returns nan (fewer than 2 values), or it raises TypeError
\* (a column declared numerical whose values are not numbers).
VarianceOutcomes ==
    { [kind |-> "value", v |-> 0], [kind |-> "value", v |-> 2],
      [kind |-> "nan", v |-> 0], [kind |-> "TypeError", v |-> 0] }

\* df[col].nunique() of a categorical column
UniqueCounts == {1, 3}

\* lines 120-124: a column is appended to variances when var() returned
\* and pd.notna(var)
VarianceKept(outcome) == outcome.kind = "value"

\* A ranking that keeps every column and puts those without a variance
\* last.
Variances_UndefinedLast(d, numerical_cols) ==
    [i \in 1..Len(numerical_cols) |->
        <<numerical_cols[i],
          IF VarianceKept(d.var[numerical_cols[i]])
          THEN d.var[numerical_cols[i]].v ELSE -1>>]

\* lines 117-124: variances, the (col, var) of the columns that are kept
RECURSIVE VariancesFrom(_, _, _)
VariancesFrom(d, numerical_cols, i) ==
    IF i > Len(numerical_cols) THEN <<>>
    ELSE (IF VarianceKept(d.var[numerical_cols[i]])
          THEN <<<<numerical_cols[i], d.var[numerical_cols[i]].v>>>>
          ELSE <<>>)
         \o VariancesFrom(d, numerical_cols, i + 1)

Variances(d, numerical_cols) == VariancesFrom(d, numerical_cols, 1)

\* lines 126-127
_select_numerical_columns(d, numerical_cols) ==
    LET variances == Variances(d, numerical_cols)
        ranked == SortDesc(variances, [i \in 1..Len(variances) |-> variances[i][2]])
    IN  [i \in 1..Len(ranked) |-> ranked[i][1]]

\* A ranking of the categorical columns that is not sorted.
_select_categorical_columns_Unsorted(d, categorical_cols) == categorical_cols

\* lines 143-149
_select_categorical_columns(d, categorical_cols) ==
    LET unique_counts == [i \in 1..Len(categorical_cols) |->
                             <<categorical_cols[i], d.nunique[categorical_cols[i]]>>]
        ranked == SortDesc(unique_counts,
                           [i \in 1..Len(unique_counts) |-> unique_counts[i][2]])
    IN  [i \in 1..Len(ranked) |-> ranked[i][1]]

InitSelectOther ==
    /\ user_schema = None
    /\ series = None /\ n_unique = 0 /\ semantic_type = None
    /\ InitSchemaOther

InitSelect ==
    /\ pc = "select_start"
    /\ \E nn \in 0..MaxNumerical, nc \in 0..MaxCategorical :
          schema_info = [numerical_cols |-> [i \in 1..nn |-> NumName(i)],
                         categorical_cols |-> [j \in 1..nc |-> CatName(j)]]
    /\ df \in [var : [{schema_info.numerical_cols[i] :
                          i \in 1..Len(schema_info.numerical_cols)} -> VarianceOutcomes],
               nunique : [{schema_info.categorical_cols[j] :
                              j \in 1..Len(schema_info.categorical_cols)} -> UniqueCounts]]
    /\ num_selection = <<>> /\ cat_selection = <<>>
    /\ InertParse /\ InertEta /\ InertRetry /\ InertPipe
    /\ InitSelectOther

\* generate_univariate_plots, line 43: num_cols
SelectNumerical ==
    /\ pc = "select_start"
    /\ num_selection' = _select_numerical_columns(df, schema_info.numerical_cols)
    /\ pc' = "select_categorical"
    /\ UNCHANGED <<cat_selection, uniVars, df, schema_info, bivVars, user_schema, autoVars>>
    /\ UNCHANGED <<parseVars, etaVars, retryVars, pipeVars>>

\* generate_univariate_plots, line 44: cat_cols
SelectCategorical ==
    /\ pc = "select_categorical"
    /\ cat_selection' = _select_categorical_columns(df, schema_info.categorical_cols)
    /\ pc' = "select_done"
    /\ UNCHANGED <<num_selection, uniVars, df, schema_info, bivVars, user_schema, autoVars>>
    /\ UNCHANGED <<parseVars, etaVars, retryVars, pipeVars>>

NextSelect == SelectNumerical \/ SelectCategorical

SpecSelect == InitSelect /\ [][NextSelect]_vars

(***************************************************************************)
(* C19: _select_numerical_columns returns exactly the numerical columns    *)
(* whose variance is computable, ordered by variance descending: a column  *)
(* without a variance is left out, not placed last.                        *)
(* _select_categorical_columns returns all categorical columns ordered by  *)
(* unique-value count descending.  In both, columns with equal keys keep   *)
(* their schema order.                                                     *)
(***************************************************************************)
C19_UnivariateRanking ==
    pc = "select_done" =>
        /\ Elements(num_selection)
               = {col \in Elements(schema_info.numerical_cols) :
                     df.var[col].kind = "value"}
        /\ Len(num_selection) = Cardinality(Elements(num_selection))
        /\ \A k, l \in 1..Len(num_selection) :
              k < l =>
                  LET a == num_selection[k]
                      b == num_selection[l]
                  IN  /\ df.var[a].v >= df.var[b].v
                      /\ df.var[a].v = df.var[b].v => a[2] < b[2]
        /\ Elements(cat_selection) = Elements(schema_info.categorical_cols)
        /\ Len(cat_selection) = Len(schema_info.categorical_cols)
        /\ \A k, l \in 1..Len(cat_selection) :
              k < l =>
                  LET a == cat_selection[k]
                      b == cat_selection[l]
                  IN  /\ df.nunique[a] >= df.nunique[b]
                      /\ df.nunique[a] = df.nunique[b] => a[2] < b[2]

\* four numerical columns, the first with the smaller variance, the second
\* without one, the last two tied on the larger; two categorical columns,
\* the second with more unique values
C19_Witness ==
    /\ pc = "select_done"
    /\ Len(schema_info.numerical_cols) = 4
    /\ df.var[NumName(1)] = [kind |-> "value", v |-> 0]
    /\ df.var[NumName(2)].kind \in {"nan", "TypeError"}
    /\ num_selection = <<NumName(3), NumName(4), NumName(1)>>
    /\ cat_selection = <<CatName(2), CatName(1)>>

(***************************************************************************)
(* modules/ai_insights.py: _call_commentary_api.                           *)
(*                                                                         *)
(* user_message describes the charts of one batch, numbered from 1.  A     *)
(* call of the API returns a response or raises; the content of a          *)
(* response is None, text that is not JSON, or a JSON object whose keys    *)
(* are chart numbers.                                                      *)
(***************************************************************************)
\* most charts of the batch
MaxBatch == 3

\* line 493
max_attempts == 2

\* The exceptions the call raises: whether str(exc).lower() contains
\* "rate" is all the handler looks at.  BadRequestError stands for an error
\* that is no rate limit and whose message contains "rate" all the same
\* ("... failed to generate ...").
ApiErrors ==
    { [name |-> "RateLimitError", mentions_rate |-> TRUE],
      [name |-> "BadRequestError", mentions_rate |-> TRUE],
      [name |-> "APIConnectionError", mentions_rate |-> FALSE],
      [name |-> "AuthenticationError", mentions_rate |-> FALSE] }

\* json.loads raises it (line 508); its message does not contain "rate"
JSONDecodeError == [name |-> "JSONDecodeError", mentions_rate |-> FALSE]

NoError == [name |-> "", mentions_rate |-> FALSE]

\* response.choices[0].message.content for a batch of n charts
Contents(n) ==
    {[kind |-> "None", keys |-> {}], [kind |-> "malformed", keys |-> {}]}
        \cup {[kind |-> "object", keys |-> ks] : ks \in SUBSET (1..n)}

NoContent == [kind |-> "None", keys |-> {}]

\* What one call of client.chat.completions.create does.
ApiOutcomes(n) ==
    {[raised |-> FALSE, content |-> c, exc |-> NoError] : c \in Contents(n)}
        \cup {[raised |-> TRUE, content |-> NoContent, exc |-> e] : e \in ApiErrors}

\* lines 505-508: json.loads(content or "{}") of a content that is JSON,
\* as the set of its keys
json_loads(content) == IF content.kind = "None" THEN {} ELSE content.keys

\* the exception the handler of line 509 is entered with
exc == IF api_calls[Len(api_calls)].raised THEN api_calls[Len(api_calls)].exc
       ELSE JSONDecodeError

\* line 510
is_rate_limit(e) == e.mentions_rate

\* A handler that retries after any error.
ShouldRetry_AnyError(a, e) == a < max_attempts - 1

\* line 511
ShouldRetry(a, e) == a < max_attempts - 1 /\ is_rate_limit(e)

\* line 512
wait(a) == 2 ^ (a + 1)

InitRetryOther ==
    /\ df = None /\ schema_info = None /\ user_schema = None
    /\ series = None /\ n_unique = 0 /\ semantic_type = None
    /\ InitSchemaOther

\* a call for a batch of user_message charts
InitRetry ==
    /\ pc = "api_call"
    /\ attempt = 0 /\ api_calls = <<>> /\ waits = <<>> /\ returned = None
    /\ user_message \in 1..MaxBatch
    /\ InertParse /\ InertEta /\ InertSelect /\ InertPipe
    /\ InitRetryOther

\* lines 496-504: the API is called; it returns a response or raises
ApiCall ==
    /\ pc = "api_call"
    /\ attempt < max_attempts
    /\ \E outcome \in ApiOutcomes(user_message) :
          /\ api_calls' = Append(api_calls, outcome)
          /\ pc' = IF outcome.raised THEN "except" ELSE "json_loads"
    /\ UNCHANGED <<attempt, waits, returned, user_message>>
    /\ UNCHANGED <<uniVars, df, schema_info, bivVars, user_schema, autoVars>>
    /\ UNCHANGED <<parseVars, etaVars, selectVars, pipeVars>>

\* lines 505-508: the content is parsed and returned, or json.loads raises
JsonLoads ==
    /\ pc = "json_loads"
    /\ LET content == api_calls[Len(api_calls)].content
       IN  IF content.kind = "malformed"
           THEN pc' = "except" /\ UNCHANGED returned
           ELSE pc' = "api_done" /\ returned' = Some(json_loads(content))
    /\ UNCHANGED <<attempt, api_calls, waits, user_message>>
    /\ UNCHANGED <<uniVars, df, schema_info, bivVars, user_schema, autoVars>>
    /\ UNCHANGED <<parseVars, etaVars, selectVars, pipeVars>>

\* lines 509-516: a rate limit on an attempt that is not the last; the
\* handler sleeps and the loop goes on
RetryAfterWait ==
    /\ pc = "except"
    /\ ShouldRetry(attempt, exc)
    /\ waits' = Append(waits, wait(attempt))
    /\ attempt' = attempt + 1
    /\ pc' = "api_call"
    /\ UNCHANGED <<api_calls, returned, user_message>>
    /\ UNCHANGED <<uniVars, df, schema_info, bivVars, user_schema, autoVars>>
    /\ UNCHANGED <<parseVars, etaVars, selectVars, pipeVars>>

\* lines 517-521: any other failure, {} is returned
GiveUp ==
    /\ pc = "except"
    /\ ~ShouldRetry(attempt, exc)
    /\ returned' = Some({})
    /\ pc' = "api_done"
    /\ UNCHANGED <<attempt, api_calls, waits, user_message>>
    /\ UNCHANGED <<uniVars, df, schema_info, bivVars, user_schema, autoVars>>
    /\ UNCHANGED <<parseVars, etaVars, selectVars, pipeVars>>

NextRetry == ApiCall \/ JsonLoads \/ RetryAfterWait \/ GiveUp

SpecRetry == InitRetry /\ [][NextRetry]_vars

\* The call runs on: the API answers or raises, time.sleep returns.
SpecRetryFair == SpecRetry /\ WF_vars(NextRetry)

\* The attempt that ended the call failed: the API raised, or its content
\* was not JSON.
Failed(outcome) == outcome.raised \/ outcome.content.kind = "malformed"

\* What holds of a call of _call_commentary_api at every moment.
RetryProtocol ==
    /\ Len(api_calls) <= 2
    /\ Len(waits) <= 1
    /\ (Len(api_calls) = 2 \/ Len(waits) = 1) =>
          /\ api_calls[1].raised /\ api_calls[1].exc.mentions_rate
          /\ Len(waits) = 1 /\ waits[1] > 0
    /\ pc # "api_done" => returned = None
    /\ pc = "api_done" =>
          /\ returned # None
          /\ Failed(api_calls[Len(api_calls)]) => returned = Some({})

(***************************************************************************)
(* C20: for one batch _call_commentary_api makes at most 2 API attempts;   *)
(* the second is made only when the first failed with an error recognised  *)
(* as a rate limit, and only after a backoff wait; any other failure, or a *)
(* failure of the second attempt, ends the call with an empty result; the  *)
(* call always ends, with a returned value and no exception.               *)
(***************************************************************************)
C20_CommentaryRetryProtocol ==
    []RetryProtocol /\ <>(pc = "api_done" /\ returned # None)

\* the first attempt hit a rate limit, the call waited 2 seconds, the
\* second attempt failed too and {} was returned
C20_Witness ==
    /\ pc = "api_done"
    /\ Len(api_calls) = 2 /\ api_calls[1].exc.name = "RateLimitError"
    /\ Failed(api_calls[2])
    /\ waits = <<2>>
    /\ returned = Some({})


(***************************************************************************)
(* C24: with default caps 5 and 4 and budget 9, the two grants after the   *)
(* donation pass of _allocate_slots never sum to more than 9, whatever     *)
(* n_num, n_cat >= 0 are: the truncation of lines 97-99 is never taken and *)
(* the final cap leaves both grants as the donation pass made them, with   *)
(* cat_slots never negative.                                               *)
(***************************************************************************)
C24_TruncationNeverTaken ==
    /\ [](pc = "alloc_cap" => num_slots + cat_slots <= 9)
    /\ [][pc = "alloc_cap" =>
             /\ num_slots' = num_slots
             /\ cat_slots' = cat_slots
             /\ cat_slots' >= 0]_vars

\* the final cap has been passed with both pools over-supplied and the
\* grants exactly at the budget
C24_Witness ==
    /\ pc = "uni_plots" /\ n_num > 5 /\ n_cat > 4
    /\ num_slots + cat_slots = 9

(***************************************************************************)
(* C25: _allocate_slots wastes no slot.  For all n_num, n_cat >= 0 the     *)
(* returned grants satisfy num_slots + cat_slots = min(n_num + n_cat, 9),  *)
(* the largest total any donation scheme for two pools can reach within    *)
(* the budget and the candidates.                                          *)
(***************************************************************************)
C25_NoSlotWasted ==
    Allocated => num_slots + cat_slots = min(n_num + n_cat, 9)

\* the budget is filled only thanks to the donation: the numerical pool
\* leaves slots unused and the categorical pool takes them
C25_Witness ==
    /\ Allocated /\ n_num < 5 /\ n_num + n_cat > 9
    /\ cat_slots > 4 /\ num_slots + cat_slots = 9

MaxSample == 2

\* modules/constants.py
MAX_COLUMNS == 50

\* The variables of the functions modelled before load_csv.
InertEarlier ==
    /\ df = None /\ schema_info = None /\ user_schema = None
    /\ series = None /\ n_unique = 0 /\ semantic_type = None
    /\ InitSchemaOther
    /\ InertParse /\ InertEta /\ InertSelect /\ InertRetry

\* the null patterns of a column over n_rows rows: TRUE where the cell is
\* null
NullPatterns(n_rows) == [1..n_rows -> BOOLEAN]

\* the numbers of columns of the files: none (a file without a header),
\* few, and more than MAX_COLUMNS
Widths == {0, 1, 2, MAX_COLUMNS + 1, MAX_COLUMNS + 2}

\* The files: the first two columns have any null pattern, the others are
\* all filled or all null; a file without columns has no rows.
Files ==
    UNION {
        {[utf8 |-> u, n_rows |-> n,
          isna |-> [c \in 1..w |-> IF c = 1 THEN p1
                                   ELSE IF c = 2 THEN p2
                                   ELSE [i \in 1..n |-> rest_null]]] :
            u \in BOOLEAN, w \in {k \in Widths : k > 0 \/ n = 0},
            rest_null \in BOOLEAN,
            p1 \in NullPatterns(n), p2 \in NullPatterns(n)}
        : n \in 0..MaxRows}

DataFrame(columns, rows) == [columns |-> columns, index |-> rows]

\* a warning of load_csv: which message, and the values its f-string shows
Warning(kind, shown) == [kind |-> kind, shown |-> shown]

\* lines 36-41: pd.read_csv; a file without columns raises EmptyDataError,
\* a ValueError
NoColumnsToParse(file) == Len(file.isna) = 0
read_csv(file) ==
    DataFrame([c \in 1..Len(file.isna) |-> c], [i \in 1..file.n_rows |-> i])

\* A test of emptiness that looks at the columns only.
empty_ColumnsOnly(d) == Len(d.columns) = 0

\* line 43: df.empty or df.shape[0] == 0
empty(d) == Len(d.columns) = 0 \/ Len(d.index) = 0

\* line 47: all_null_cols
all_null_cols(file, d) ==
    SelectSeq(d.columns,
              LAMBDA c : \A i \in 1..Len(d.index) : file.isna[c][d.index[i]])

\* line 49: df.drop(columns=...)
drop(d, cols) ==
    DataFrame(SelectSeq(d.columns, LAMBDA c : ~In(c, cols)), d.index)

\* line 57: df.iloc[:, :MAX_COLUMNS]
iloc_columns(d, k) == DataFrame(SubSeq(d.columns, 1, min(k, Len(d.columns))), d.index)

\* line 65: df.sample(n=max_rows, random_state=RANDOM_SEED) draws max_rows
\* distinct rows in an order the generator fixes: any such draw
Samples(d, n) ==
    {rows \in [1..n -> {d.index[i] : i \in 1..Len(d.index)}] :
        \A i, j \in 1..n : rows[i] = rows[j] => i = j}

\* lines 66-69: the warning, built after df was rebound to the sample
SampledWarning(n, d) == Warning("sampled", <<n, Len(d.index)>>)

\* what load_csv did: it raised, or it returned <<df, warnings>>
Raised(name) == [raised |-> Some(name), value |-> None]
Returned(d, ws) == [raised |-> None, value |-> Some([df |-> d, warnings |-> ws])]

\* The locals df and warnings after each step of load_csv.
Locals(d, ws) == [df |-> d, warnings |-> ws]

\* lines 36-41: utf-8 first, latin-1 with a warning after UnicodeDecodeError
ReadStep(file) ==
    Locals(read_csv(file),
           IF file.utf8 THEN <<>> ELSE <<Warning("latin-1", <<>>)>>)

\* lines 46-53
DropStep(file, st) ==
    LET cols == all_null_cols(file, st.df)
    IN  IF cols # <<>>
        THEN Locals(drop(st.df, cols),
                    Append(st.warnings, Warning("dropped", <<Len(cols)>> \o cols)))
        ELSE st

\* lines 55-61
CapStep(st) ==
    IF Len(st.df.columns) > MAX_COLUMNS
    THEN Locals(iloc_columns(st.df, MAX_COLUMNS),
                Append(st.warnings, Warning("capped", <<MAX_COLUMNS, MAX_COLUMNS>>)))
    ELSE st

\* the draws line 65 can make of frame d (the rows as they are when no
\* sample is taken)
Draws(d, n) == IF Len(d.index) > n THEN Samples(d, n) ELSE {d.index}

\* lines 63-69, the sample being the rows `rows`
SampleStep(st, n, rows) ==
    IF Len(st.df.index) > n
    THEN LET sampled == DataFrame(st.df.columns, rows)
         IN  Locals(sampled, Append(st.warnings, SampledWarning(n, sampled)))
    ELSE st

InitLoad ==
    /\ pc = "load_read"
    /\ file_bytes \in {Some(f) : f \in Files}
    /\ max_rows \in 1..MaxSample
    /\ frame = None /\ warnings = <<>> /\ load_result = None
    /\ InertEarlier /\ InertText /\ InertApp /\ InertBatch

\* lines 36-41 with a file read_csv cannot parse: the error leaves load_csv
LoadReadFails ==
    /\ pc = "load_read"
    /\ NoColumnsToParse(file_bytes[1])
    /\ load_result' = Raised("ValueError")
    /\ pc' = "load_done"
    /\ UNCHANGED <<file_bytes, max_rows, frame, warnings>>
    /\ UNCHANGED <<earlierVars, textVars, appVars, batchVars>>

\* lines 36-41
LoadRead ==
    /\ pc = "load_read"
    /\ ~NoColumnsToParse(file_bytes[1])
    /\ frame' = Some(ReadStep(file_bytes[1]).df)
    /\ warnings' = ReadStep(file_bytes[1]).warnings
    /\ pc' = "load_check"
    /\ UNCHANGED <<file_bytes, max_rows, load_result>>
    /\ UNCHANGED <<earlierVars, textVars, appVars, batchVars>>

\* lines 43-44
LoadRejectEmpty ==
    /\ pc = "load_check"
    /\ empty(frame[1])
    /\ load_result' = Raised("ValueError")
    /\ pc' = "load_done"
    /\ UNCHANGED <<file_bytes, max_rows, frame, warnings>>
    /\ UNCHANGED <<earlierVars, textVars, appVars, batchVars>>

\* lines 46-53
LoadDropAllNull ==
    /\ pc = "load_check"
    /\ ~empty(frame[1])
    /\ LET st == DropStep(file_bytes[1], Locals(frame[1], warnings))
       IN  frame' = Some(st.df) /\ warnings' = st.warnings
    /\ pc' = "load_cap"
    /\ UNCHANGED <<file_bytes, max_rows, load_result>>
    /\ UNCHANGED <<earlierVars, textVars, appVars, batchVars>>

\* lines 55-61
LoadCapColumns ==
    /\ pc = "load_cap"
    /\ LET st == CapStep(Locals(frame[1], warnings))
       IN  frame' = Some(st.df) /\ warnings' = st.warnings
    /\ pc' = "load_sample"
    /\ UNCHANGED <<file_bytes, max_rows, load_result>>
    /\ UNCHANGED <<earlierVars, textVars, appVars, batchVars>>

\* lines 63-69
LoadSample ==
    /\ pc = "load_sample"
    /\ \E rows \in Draws(frame[1], max_rows) :
          LET st == SampleStep(Locals(frame[1], warnings), max_rows, rows)
          IN  frame' = Some(st.df) /\ warnings' = st.warnings
    /\ pc' = "load_return"
    /\ UNCHANGED <<file_bytes, max_rows, load_result>>
    /\ UNCHANGED <<earlierVars, textVars, appVars, batchVars>>

\* line 71
LoadReturn ==
    /\ pc = "load_return"
    /\ load_result' = Returned(frame[1], warnings)
    /\ pc' = "load_done"
    /\ UNCHANGED <<file_bytes, max_rows, frame, warnings>>
    /\ UNCHANGED <<earlierVars, textVars, appVars, batchVars>>

\* lines 32-71: load_csv as one call, the sample being the rows `rows`
load_csv(file, n, rows) ==
    IF NoColumnsToParse(file) THEN Raised("ValueError")
    ELSE IF empty(ReadStep(file).df) THEN Raised("ValueError")
    ELSE LET st == SampleStep(CapStep(DropStep(file, ReadStep(file))), n, rows)
         IN  Returned(st.df, st.warnings)

\* the draws of load_csv(file, n)
LoadDraws(file, n) ==
    IF NoColumnsToParse(file) \/ empty(ReadStep(file).df) THEN {<<>>}
    ELSE Draws(CapStep(DropStep(file, ReadStep(file))).df, n)

NextLoad ==
    \/ LoadReadFails
    \/ LoadRead
    \/ LoadRejectEmpty
    \/ LoadDropAllNull
    \/ LoadCapColumns
    \/ LoadSample
    \/ LoadReturn

SpecLoad == InitLoad /\ [][NextLoad]_vars

\* load_csv accepted the file and returned
Accepted == pc = "load_done" /\ load_result # None /\ load_result.raised = None
ReturnedFrame == load_result.value[1].df
ReturnedWarnings == load_result.value[1].warnings

\* a column of the returned frame has a value in a row the frame kept
HasValue(c) ==
    \E i \in 1..Len(ReturnedFrame.index) :
        ~file_bytes[1].isna[c][ReturnedFrame.index[i]]

(***************************************************************************)
(* C27: for every file load_csv accepts, the returned DataFrame has at     *)
(* least one column, at most 50 columns, at most max_rows rows, and every  *)
(* column has at least one non-null value, also when the rows were sampled *)
(* after the all-null columns were dropped.                                *)
(***************************************************************************)
C27_ReturnedFrameValid ==
    Accepted =>
        /\ Len(ReturnedFrame.columns) >= 1
        /\ Len(ReturnedFrame.columns) <= 50
        /\ Len(ReturnedFrame.index) <= max_rows
        /\ \A k \in 1..Len(ReturnedFrame.columns) :
              HasValue(ReturnedFrame.columns[k])

\* What load_csv does guarantee of the frame it returns.
ReturnedFrameBounded ==
    Accepted =>
        /\ Len(ReturnedFrame.columns) <= 50
        /\ Len(ReturnedFrame.index) >= 1
        /\ Len(ReturnedFrame.index) <= max_rows

(***************************************************************************)
(* C28: when load_csv samples a dataset of more than max_rows rows, the    *)
(* warning it returns shows, as the original count, the number of rows the *)
(* dataset had before sampling.                                            *)
(***************************************************************************)
C28_SampledWarningShowsOriginal ==
    Accepted =>
        \A k \in 1..Len(ReturnedWarnings) :
            ReturnedWarnings[k].kind = "sampled" =>
                /\ file_bytes[1].n_rows > max_rows
                /\ ReturnedWarnings[k].shown = <<max_rows, file_bytes[1].n_rows>>

\* What the warning shows: max_rows twice.
SampledWarningShowsSampleSize ==
    Accepted =>
        \A k \in 1..Len(ReturnedWarnings) :
            ReturnedWarnings[k].kind = "sampled" =>
                /\ file_bytes[1].n_rows > max_rows
                /\ ReturnedWarnings[k].shown = <<max_rows, max_rows>>


(***************************************************************************)
(* parse_schema_text.                                                      *)
(*                                                                         *)
(* The reply of the language model is given by what _call_openai makes of  *)
(* it: the call raises, the content is not JSON, or json.loads returns a   *)
(* value, which need not be the object the prompt asks for and whose       *)
(* "columns" list may hold items that are not objects.                     *)
(***************************************************************************)
\* the schema texts: empty, blank, and a description
SchemaTexts == { <<>>, <<" ", " ">>, <<"a", "b", " ", "n", "u", "m">> }

\* A test of the text that does not strip it.
blank_NoStrip(text) == text = <<>>

\* line 66: not schema_text or not schema_text.strip()
blank(text) == text = <<>> \/ strip(text) = <<>>

\* the items of raw["columns"]: descriptors (JSON objects), and an item
\* that is not an object (a string, a number, null)
Items(k) ==
    [is_dict : {TRUE},
     name : {Some(<<"a", "b">>), Some(<<"c">>)},
     type : {None, Some(Literal("numerical"))},
     description : {Description(k)}]
    \cup
    [is_dict : {FALSE}, name : {None}, type : {None},
     description : {Description(k)}]

ItemLists ==
    UNION {{s \in [1..n -> UNION {Items(k) : k \in 1..n}] :
               \A k \in 1..n : s[k].description = Description(k)}
           : n \in 0..MaxEntries}

Reply(kind, is_list, items) ==
    [kind |-> kind, columns |-> [is_list |-> is_list, items |-> items]]

\* What the call of the model can give.
Replies ==
    { Reply("api_error", FALSE, <<>>),      \* create() raises
      Reply("not_json", FALSE, <<>>),       \* json.loads raises
      Reply("no_content", TRUE, <<>>),      \* content None, read as "{}"
      Reply("json_list", FALSE, <<>>),      \* JSON, but not an object
      Reply("no_columns", TRUE, <<>>),      \* an object without "columns"
      Reply("json_object", FALSE, <<>>) }   \* "columns" is not a list
    \cup {Reply("json_object", TRUE, items) : items \in ItemLists}

\* what a call did: it raised, or it returned a value
Raises(name) == [raised |-> Some(name), value |-> None]
Returns(value) == [raised |-> None, value |-> Some(value)]

\* UserSchema(): no columns
EmptyUserSchema == <<>>

\* lines 78-91: _call_openai
_call_openai(reply) ==
    IF reply.kind = "api_error" THEN Raises("APIError")
    ELSE IF reply.kind = "not_json" THEN Raises("JSONDecodeError")
    ELSE Returns(reply)

\* lines 105-132 over the items from the i-th on: matched, or the
\* AttributeError of entry.get on an item that is not a dict
RECURSIVE BuildFrom(_, _, _)
BuildFrom(items, columns, i) ==
    IF i > Len(items) THEN Returns(<<>>)
    ELSE IF ~items[i].is_dict THEN Raises("AttributeError")
    ELSE LET rest == BuildFrom(items, columns, i + 1)
         IN  IF rest.raised # None THEN rest
             ELSE Returns(MatchEntry(items[i], columns) \o rest.value[1])

\* lines 94-134: _build_user_schema
_build_user_schema(raw, columns) ==
    IF raw.kind = "json_list" THEN Raises("AttributeError")
    ELSE IF ~raw.columns.is_list THEN Returns(EmptyUserSchema)
    ELSE BuildFrom(raw.columns.items, columns, 1)

\* lines 49-75: parse_schema_text as one call, the model replying `reply`
parse_schema_text(text, columns, reply) ==
    IF blank(text) THEN Returns(EmptyUserSchema)
    ELSE IF _call_openai(reply).raised # None THEN Returns(EmptyUserSchema)
    ELSE IF _build_user_schema(reply, columns).raised # None
    THEN Returns(EmptyUserSchema)
    ELSE _build_user_schema(reply, columns)

InitText ==
    /\ pc = "text_start"
    /\ schema_text \in SchemaTexts
    /\ csv_columns \in { << <<"a", "b">> >>, << <<"A", "B">>, <<"c">> >> }
    /\ api_reply = None /\ llm_calls = 0 /\ parsed = None
    /\ df = None /\ schema_info = None /\ user_schema = None
    /\ series = None /\ n_unique = 0 /\ semantic_type = None
    /\ InitSchemaOther
    /\ columns_raw = <<>> /\ matched = <<>> /\ entry_i = 0
    /\ InertEta /\ InertSelect /\ InertRetry /\ InertLoad /\ InertApp
    /\ InertBatch

\* lines 66-67
TextBlank ==
    /\ pc = "text_start"
    /\ blank(schema_text)
    /\ parsed' = Returns(EmptyUserSchema)
    /\ pc' = "text_done"
    /\ UNCHANGED <<schema_text, api_reply, llm_calls>>
    /\ UNCHANGED <<earlierVars, loadVars, appVars, batchVars>>

\* line 70: raw = _call_openai(schema_text, api_key)
TextCallOpenAI ==
    /\ pc = "text_start"
    /\ ~blank(schema_text)
    /\ \E reply \in Replies :
          /\ api_reply' = Some(reply)
          /\ pc' = IF _call_openai(reply).raised # None THEN "text_except"
                   ELSE "text_build"
    /\ llm_calls' = llm_calls + 1
    /\ UNCHANGED <<schema_text, parsed>>
    /\ UNCHANGED <<earlierVars, loadVars, appVars, batchVars>>

\* line 71: return _build_user_schema(raw, csv_columns)
TextBuild ==
    /\ pc = "text_build"
    /\ LET built == _build_user_schema(api_reply[1], csv_columns)
       IN  IF built.raised # None
           THEN pc' = "text_except" /\ UNCHANGED parsed
           ELSE pc' = "text_done" /\ parsed' = built
    /\ UNCHANGED <<schema_text, api_reply, llm_calls>>
    /\ UNCHANGED <<earlierVars, loadVars, appVars, batchVars>>

\* lines 72-74: except Exception
TextExcept ==
    /\ pc = "text_except"
    /\ parsed' = Returns(EmptyUserSchema)
    /\ pc' = "text_done"
    /\ UNCHANGED <<schema_text, api_reply, llm_calls>>
    /\ UNCHANGED <<earlierVars, loadVars, appVars, batchVars>>

NextText == TextBlank \/ TextCallOpenAI \/ TextBuild \/ TextExcept

SpecText == InitText /\ [][NextText]_vars

\* the call of the model, or the processing of its reply, failed
ReplyFailed ==
    /\ api_reply # None
    /\ \/ _call_openai(api_reply[1]).raised # None
       \/ _build_user_schema(api_reply[1], csv_columns).raised # None

\* an item of the reply that is not an object
MalformedItem ==
    /\ api_reply # None
    /\ \E k \in 1..Len(api_reply[1].columns.items) :
          ~api_reply[1].columns.items[k].is_dict

\* detect_schema with this user schema detects every column by itself
AutoDetectionOnly(us) ==
    \A d \in [1..1 -> ColumnKinds] : detect_schema(d, us) = detect_schema(d, None)

(***************************************************************************)
(* C21: parse_schema_text never raises.  An empty or blank schema text     *)
(* returns an empty UserSchema without a call of the language model; a     *)
(* failure of the call or of the processing of its reply, a single         *)
(* malformed column entry included, returns an empty UserSchema too, with  *)
(* which detect_schema detects every column by itself.                     *)
(***************************************************************************)
C21_ParseSchemaTextNeverRaises ==
    /\ pc = "text_done" => parsed # None /\ parsed.raised = None
    /\ (\A i \in 1..Len(schema_text) : schema_text[i] = " ") =>
          /\ llm_calls = 0
          /\ pc = "text_done" => parsed = Returns(EmptyUserSchema)
    /\ (pc = "text_done" /\ (ReplyFailed \/ MalformedItem)) =>
          /\ parsed = Returns(EmptyUserSchema)
          /\ AutoDetectionOnly(parsed.value)

\* a reply whose first entry names a real column and whose second is not an
\* object: the whole schema is given up
C21_Witness ==
    /\ pc = "text_done" /\ api_reply # None
    /\ Len(api_reply[1].columns.items) = 2
    /\ api_reply[1].columns.items[1].is_dict
    /\ MatchEntry(api_reply[1].columns.items[1], csv_columns) # <<>>
    /\ ~api_reply[1].columns.items[2].is_dict
    /\ parsed = Returns(EmptyUserSchema)


(***************************************************************************)
(* app.py: one run of the script.                                          *)
(*                                                                         *)
(* load_csv, parse_schema_text, generate_questions and                     *)
(* generate_insight_plots are the functions modelled here; detect_schema,  *)
(* the two plot generators and generate_batch_commentary are given by what *)
(* they hand back to the script.                                           *)
(***************************************************************************)
\* the longest list of questions a reply holds
MaxQuestions == 2

\* _truncate_title, line 185: the default of max_len
max_len == 60

\* a text: what it says, how long it is, and whether it was cut
TextOf(words, length) == [words |-> words, length |-> length, ellipsis |-> FALSE]

\* A title that is never cut.
_truncate_title_Whole(text) == text

\* lines 185-197
_truncate_title(text) ==
    IF text.length <= max_len THEN text
    ELSE [words |-> text.words, length |-> max_len, ellipsis |-> TRUE]

\* PlotResult: title and plot_type
PlotResult(title, plot_type) == [title |-> title, plot_type |-> plot_type]

\* lines 352-367: the keys of _CHART_CREATORS
_CHART_CREATORS ==
    {"histogram", "scatter", "bar_chart", "box_plot", "grouped_bar"}

\* the k-th item of the "questions" of a reply: its text, its chart type,
\* and whether its x_column is a column of the frame
QuestionItems(k) ==
    { [question |-> TextOf(<<"question", k>>, 20), chart_type |-> "histogram",
       x_known |-> TRUE],
      [question |-> TextOf(<<"question", k>>, 20), chart_type |-> "pie",
       x_known |-> TRUE],
      [question |-> TextOf(<<"question", k>>, 20), chart_type |-> "scatter",
       x_known |-> FALSE],
      [question |-> TextOf(<<"question", k>>, 61), chart_type |-> "box_plot",
       x_known |-> TRUE] }

QuestionLists ==
    UNION {{s \in [1..n -> UNION {QuestionItems(k) : k \in 1..n}] :
               \A k \in 1..n : s[k].question.words = <<"question", k>>}
           : n \in 0..MaxQuestions}

\* What the call of the model in generate_questions can give.
QuestionReplies ==
    { [kind |-> "api_error", questions |-> <<>>],     \* create() raises
      [kind |-> "not_json", questions |-> <<>>],      \* json.loads raises
      [kind |-> "not_a_list", questions |-> <<>>] }   \* "questions": "..."
    \cup {[kind |-> "json_object", questions |-> qs] : qs \in QuestionLists}

\* lines 137-180: the questions whose columns exist, as the dicts appended
\* to valid_questions
valid_questions(items) ==
    LET kept == SelectSeq(items, LAMBDA q : q.x_known)
    IN  [i \in 1..Len(kept) |->
            [question |-> kept[i].question, chart_type |-> kept[i].chart_type]]

\* lines 96-182: generate_questions; nothing in it catches an exception
generate_questions(reply) ==
    IF reply.kind = "api_error" THEN Raises("APIError")
    ELSE IF reply.kind = "not_json" THEN Raises("JSONDecodeError")
    ELSE IF reply.kind = "not_a_list" THEN Returns(<<>>)
    ELSE Returns(valid_questions(reply.questions))

\* lines 388-428 from the i-th question on: a question of unknown chart
\* type is skipped, one whose creator raises (those of `failed`) too
RECURSIVE InsightPlotsFrom(_, _, _)
InsightPlotsFrom(qs, failed, i) ==
    IF i > Len(qs) THEN <<>>
    ELSE (IF qs[i].chart_type \notin _CHART_CREATORS \/ i \in failed THEN <<>>
          ELSE <<PlotResult(_truncate_title(qs[i].question), qs[i].chart_type)>>)
         \o InsightPlotsFrom(qs, failed, i + 1)

\* lines 370-430
generate_insight_plots(qs, failed) == InsightPlotsFrom(qs, failed, 1)

\* zip(xs, ys)
zip(xs, ys) == [i \in 1..min(Len(xs), Len(ys)) |-> <<xs[i], ys[i]>>]

\* A display that looks each plot's question up by the plot's title.
Tab5Pairs_ByTitle(qs, ps) ==
    [i \in 1..Len(ps) |->
        <<qs[CHOOSE k \in 1..Len(qs) : _truncate_title(qs[k].question) = ps[i].title],
          ps[i]>>]

\* lines 228-230: the pairs the AI Insights tab goes through
Tab5Pairs(qs, ps) == zip(qs, ps)

\* lines 231-245: what the tab shows of a pair
Tab5Entry(pair, comments) ==
    [subheader |-> pair[1].question,
     plot |-> pair[2],
     commented |-> pair[2].title \in comments]

\* the files of a run of the script: no column, or one column
AppFiles == {f \in Files : f.utf8 /\ Len(f.isna) <= 1 /\ f.n_rows <= 2}

\* list(df.columns), the names being those of the schema texts
Header(c) == IF c = 1 THEN <<"a", "b">> ELSE <<"c">>
ColumnNames(d) == [i \in 1..Len(d.columns) |-> Header(d.columns[i])]

\* the replies parse_schema_text gets in a run of the script
AppReplies ==
    {r \in Replies :
        \/ r.kind \in {"api_error", "no_content"}
        \/ r.kind = "json_object" /\ Len(r.columns.items) = 1}

\* what a plot generator hands back: nothing, or one plot
PlotLists(words, plot_type) ==
    { <<>>, <<PlotResult(TextOf(<<words, 1>>, 20), plot_type)>> }

\* a call of the script: the function, and whether its call of the
\* language model failed
Call(name, failed) == [name |-> name, failed |-> failed]

Titles(ps) == {ps[i].title : i \in 1..Len(ps)}

InitApp ==
    /\ pc = "app_upload"
    /\ file_bytes \in {None} \cup {Some(f) : f \in AppFiles}
    /\ max_rows = 1
    /\ schema_text \in SchemaTexts
    /\ api_key \in {"", "sk"}
    /\ frame = None /\ warnings = <<>> /\ load_result = None
    /\ api_reply = None /\ llm_calls = 0 /\ parsed = None
    /\ calls = <<>> /\ uni_plots = <<>> /\ biv_plots = <<>>
    /\ questions = <<>> /\ insight_plots = <<>> /\ commentary = {}
    /\ tab5 = <<>> /\ escaped = None
    /\ InertEarlier /\ InertBatch

\* line 71 with no file uploaded: df and schema_info stay None
AppNoUpload ==
    /\ pc = "app_upload"
    /\ file_bytes = None
    /\ pc' = "app_tabs"
    /\ UNCHANGED <<earlierVars, loadVars, textVars, appVars, batchVars>>

\* lines 71-81: load_csv; a ValueError is shown and the script stops
AppLoadCsv ==
    /\ pc = "app_upload"
    /\ file_bytes # None
    /\ \E rows \in LoadDraws(file_bytes[1], max_rows) :
          LET loaded == load_csv(file_bytes[1], max_rows, rows)
          IN  /\ load_result' = loaded
              /\ IF loaded.raised # None
                 THEN /\ pc' = "app_stopped"
                      /\ UNCHANGED <<frame, warnings>>
                 ELSE /\ pc' = "app_schema"
                      /\ frame' = Some(loaded.value[1].df)
                      /\ warnings' = loaded.value[1].warnings
    /\ calls' = Append(calls, Call("load_csv", FALSE))
    /\ UNCHANGED <<file_bytes, max_rows>>
    /\ UNCHANGED <<api_key, uni_plots, biv_plots, questions, insight_plots,
                   commentary, tab5, escaped>>
    /\ UNCHANGED <<earlierVars, textVars, batchVars>>

\* lines 83-99: parse_schema_text when there is a text and a key, then
\* detect_schema
AppSchema ==
    /\ pc = "app_schema"
    /\ IF ~blank(schema_text) /\ api_key # ""
       THEN \E reply \in AppReplies :
               /\ parsed' = parse_schema_text(schema_text,
                                              ColumnNames(frame[1]), reply)
               /\ llm_calls' = llm_calls + 1
               /\ calls' = calls
                           \o <<Call("parse_schema_text",
                                     _call_openai(reply).raised # None),
                                Call("detect_schema", FALSE)>>
       ELSE /\ calls' = Append(calls, Call("detect_schema", FALSE))
            /\ UNCHANGED <<parsed, llm_calls>>
    /\ pc' = "app_plots"
    /\ UNCHANGED <<schema_text, api_reply>>
    /\ UNCHANGED <<api_key, uni_plots, biv_plots, questions, insight_plots,
                   commentary, tab5, escaped>>
    /\ UNCHANGED <<earlierVars, loadVars, batchVars>>

\* lines 108-110
AppPlots ==
    /\ pc = "app_plots"
    /\ uni_plots' \in PlotLists("univariate", "histogram")
    /\ biv_plots' \in PlotLists("bivariate", "scatter")
    /\ calls' = calls \o <<Call("generate_univariate_plots", FALSE),
                           Call("generate_bivariate_plots", FALSE)>>
    /\ pc' = "app_questions"
    /\ UNCHANGED <<api_key, questions, insight_plots, commentary, tab5, escaped>>
    /\ UNCHANGED <<earlierVars, loadVars, textVars, batchVars>>

\* lines 112-116: generate_questions, called outside any try
AppQuestions ==
    /\ pc = "app_questions"
    /\ IF api_key # ""
       THEN \E reply \in QuestionReplies :
               LET generated == generate_questions(reply)
               IN  /\ calls' = Append(calls, Call("generate_questions",
                                                  reply.kind = "api_error"))
                   /\ llm_calls' = llm_calls + 1
                   /\ IF generated.raised # None
                      THEN /\ escaped' = generated.raised
                           /\ pc' = "app_raised"
                           /\ UNCHANGED questions
                      ELSE /\ questions' = generated.value[1]
                           /\ pc' = "app_insights"
                           /\ UNCHANGED escaped
       ELSE /\ pc' = "app_insights"
            /\ UNCHANGED <<calls, llm_calls, questions, escaped>>
    /\ UNCHANGED <<schema_text, api_reply, parsed>>
    /\ UNCHANGED <<api_key, uni_plots, biv_plots, insight_plots, commentary, tab5>>
    /\ UNCHANGED <<earlierVars, loadVars, batchVars>>

\* lines 117-120
AppInsightPlots ==
    /\ pc = "app_insights"
    /\ IF questions # <<>>
       THEN /\ \E failed \in SUBSET (1..Len(questions)) :
                  insight_plots' = generate_insight_plots(questions, failed)
            /\ calls' = Append(calls, Call("generate_insight_plots", FALSE))
       ELSE UNCHANGED <<insight_plots, calls>>
    /\ pc' = "app_commentary"
    /\ UNCHANGED <<api_key, uni_plots, biv_plots, questions, commentary, tab5,
                   escaped>>
    /\ UNCHANGED <<earlierVars, loadVars, textVars, batchVars>>

\* lines 122-128: generate_batch_commentary returns a text for every plot,
\* or nothing when its calls of the model fail
AppCommentary ==
    /\ pc = "app_commentary"
    /\ LET all_plots == uni_plots \o biv_plots \o insight_plots
       IN  IF api_key # "" /\ all_plots # <<>>
           THEN /\ \E failed \in BOOLEAN :
                      /\ commentary' = IF failed THEN {} ELSE Titles(all_plots)
                      /\ calls' = Append(calls,
                                         Call("generate_batch_commentary", failed))
                /\ llm_calls' = llm_calls + 1
           ELSE UNCHANGED <<commentary, calls, llm_calls>>
    /\ pc' = "app_tabs"
    /\ UNCHANGED <<schema_text, api_reply, parsed>>
    /\ UNCHANGED <<api_key, uni_plots, biv_plots, questions, insight_plots, tab5,
                   escaped>>
    /\ UNCHANGED <<earlierVars, loadVars, batchVars>>

\* lines 131-245: the tabs; of these the AI Insights tab (lines 211-245)
AppTabs ==
    /\ pc = "app_tabs"
    /\ tab5' = IF frame = None \/ api_key = "" \/ questions = <<>> THEN <<>>
               ELSE LET shown == Tab5Pairs(questions, insight_plots)
                    IN  [i \in 1..Len(shown) |-> Tab5Entry(shown[i], commentary)]
    /\ pc' = "app_done"
    /\ UNCHANGED <<api_key, calls, uni_plots, biv_plots, questions,
                   insight_plots, commentary, escaped>>
    /\ UNCHANGED <<earlierVars, loadVars, textVars, batchVars>>

NextApp ==
    \/ AppNoUpload
    \/ AppLoadCsv
    \/ AppSchema
    \/ AppPlots
    \/ AppQuestions
    \/ AppInsightPlots
    \/ AppCommentary
    \/ AppTabs

SpecApp == InitApp /\ [][NextApp]_vars


\* the uploaded file has no data row
ZeroDataRows == file_bytes # None /\ file_bytes[1].n_rows = 0

\* load_csv returned a frame to the script
DatasetAccepted == load_result # None /\ load_result.raised = None

\* the script called the function
Called(name) == \E i \in 1..Len(calls) : calls[i].name = name

(***************************************************************************)
(* C22: input rejection.  For a CSV with zero data rows load_csv raises    *)
(* ValueError and returns neither a DataFrame nor warnings, and the script *)
(* stops there: no schema detection, no plot generation and no call of the *)
(* language model is made.                                                 *)
(***************************************************************************)
C22_EmptyDatasetRejected ==
    /\ pc = "app_upload" =>
          \A f \in Files : \A n \in 1..MaxSample :
              f.n_rows = 0 =>
                  load_csv(f, n, <<>>) = [raised |-> Some("ValueError"),
                                          value |-> None]
    /\ (ZeroDataRows /\ pc # "app_upload") =>
          /\ load_result.raised = Some("ValueError")
          /\ load_result.value = None
          /\ frame = None /\ warnings = <<>>
          /\ pc = "app_stopped"
          /\ calls = <<Call("load_csv", FALSE)>>
          /\ llm_calls = 0
          /\ uni_plots = <<>> /\ biv_plots = <<>> /\ insight_plots = <<>>

\* a file with a header and no data row, a schema text and a key: the
\* script has stopped
C22_Witness ==
    /\ pc = "app_stopped" /\ ZeroDataRows
    /\ Len(file_bytes[1].isna) = 1
    /\ ~blank(schema_text) /\ api_key # ""

(***************************************************************************)
(* C23: once a dataset has been accepted, no failure of a call of an       *)
(* external collaborator (schema-text parsing, insight-question            *)
(* generation, commentary generation) leaves the script as an exception;   *)
(* each degrades to an empty result, and the univariate and bivariate      *)
(* selections are produced and the script reaches its end.                 *)
(***************************************************************************)
C23_CollaboratorFailuresContained ==
    DatasetAccepted =>
        /\ escaped = None /\ pc # "app_raised"
        /\ \A i \in 1..Len(calls) :
              calls[i].failed =>
                 /\ calls[i].name = "parse_schema_text" =>
                       parsed = Returns(EmptyUserSchema)
                 /\ calls[i].name = "generate_questions" => questions = <<>>
                 /\ calls[i].name = "generate_batch_commentary" =>
                       commentary = {}
        /\ pc = "app_done" =>
              /\ Called("generate_univariate_plots")
              /\ Called("generate_bivariate_plots")

\* What holds: a failure in parse_schema_text or generate_batch_commentary
\* degrades to an empty result, and only generate_questions lets an
\* exception out.
ParsingAndCommentaryFailuresContained ==
    DatasetAccepted =>
        /\ \A i \in 1..Len(calls) :
              calls[i].failed =>
                 /\ calls[i].name = "parse_schema_text" =>
                       parsed = Returns(EmptyUserSchema)
                 /\ calls[i].name = "generate_batch_commentary" =>
                       commentary = {}
        /\ escaped # None =>
              /\ pc = "app_raised"
              /\ calls[Len(calls)].name = "generate_questions"
              /\ Called("generate_univariate_plots")
              /\ Called("generate_bivariate_plots")

(***************************************************************************)
(* C29: in the AI Insights tab every plot is displayed under the question  *)
(* it was generated from, whatever the list of questions, also when        *)
(* generate_insight_plots skipped some of them and returned fewer plots    *)
(* than questions.                                                         *)
(***************************************************************************)
C29_PlotUnderItsQuestion ==
    pc = "app_done" =>
        \A i \in 1..Len(tab5) :
            tab5[i].plot.title = _truncate_title(tab5[i].subheader)

\* What holds: the pairing is right when no question was skipped.
PlotUnderItsQuestionWhenNoneSkipped ==
    (pc = "app_done" /\ Len(insight_plots) = Len(questions)) =>
        \A i \in 1..Len(tab5) :
            tab5[i].plot.title = _truncate_title(tab5[i].subheader)


(***************************************************************************)
(* generate_batch_commentary.                                              *)
(*                                                                         *)
(* A plot is given by its title.  What _call_commentary_api returns for a  *)
(* batch is {} when its calls failed, and otherwise the items of the JSON  *)
(* object of the reply, in order: a key, and a commentary that tells the   *)
(* batch and the key it was written for.                                   *)
(***************************************************************************)
\* the longest list of plots
MaxPlots == 11

\* the most items of a reply
MaxKeys == 2

\* line 528: the default of batch_size
batch_size == 10

Digits == <<"0", "1", "2", "3", "4", "5", "6", "7", "8", "9">>

\* f"{idx}", line 470: the decimal digits of an integer
RECURSIVE StrOfInt(_)
StrOfInt(n) ==
    IF n < 0 THEN <<"-">> \o StrOfInt(0 - n)
    ELSE IF n < 10 THEN <<Digits[n + 1]>>
    ELSE StrOfInt(n \div 10) \o <<Digits[(n % 10) + 1]>>

IsDigit(ch) == \E d \in 1..10 : Digits[d] = ch
DigitValue(ch) == (CHOOSE d \in 1..10 : Digits[d] = ch) - 1

\* the value of a string of digits
RECURSIVE DigitsValue(_)
DigitsValue(text) ==
    IF text = <<>> THEN 0
    ELSE 10 * DigitsValue(SubSeq(text, 1, Len(text) - 1))
         + DigitValue(text[Len(text)])

\* int(idx_str), line 570: the integer of a string that, stripped, is an
\* optional sign and digits; None stands for its ValueError
int(text) ==
    LET stripped == strip(text)
        signed == stripped # <<>> /\ Head(stripped) \in {"-", "+"}
        digits == IF signed THEN Tail(stripped) ELSE stripped
    IN  IF digits = <<>> \/ \E i \in 1..Len(digits) : ~IsDigit(digits[i])
        THEN None
        ELSE Some(IF signed /\ Head(stripped) = "-" THEN 0 - DigitsValue(digits)
                  ELSE DigitsValue(digits))

\* titles of the plots: the i-th plot has its own title, or, in a list
\* with a repeated title, the last plot has the title of the first
ChartTitle(i) == <<"chart", i>>
PlotsOf(n, repeated) ==
    [i \in 1..n |->
        [title |-> IF repeated /\ i = n THEN ChartTitle(1) ELSE ChartTitle(i)]]

\* the lists of plots: short ones, and those of one batch and more
PlotResultLists ==
    {PlotsOf(n, repeated) :
        n \in (0..2) \cup (batch_size..MaxPlots), repeated \in BOOLEAN}

\* line 560: batch
batch_of(ps, start) == SubSeq(ps, start + 1, min(start + batch_size, Len(ps)))

\* the keys a reply for the batch can hold: the first chart of all, the
\* first chart of the batch, its last chart behind a space, the chart
\* after the batch, the chart before it, and keys that are no chart
KeyPool(start, size) ==
    { StrOfInt(1), StrOfInt(start + 1), <<" ">> \o StrOfInt(start + size),
      StrOfInt(start + size + 1), StrOfInt(start), StrOfInt(0 - 1), <<"x">> }

\* the commentary of a reply for a key
Commentary(start, key) == [batch |-> start, key |-> key]

\* the items of the replies for the batch
ItemsOf(start, size) ==
    UNION {{[i \in 1..n |-> <<keys[i], Commentary(start, keys[i])>>] :
               keys \in {ks \in [1..n -> KeyPool(start, size)] :
                            \A i, j \in 1..n : ks[i] = ks[j] => i = j}}
           : n \in 0..MaxKeys}

\* An offset counted from the first chart of all.
offset_FromFirstChart(idx, start) == idx - 1

\* line 570: offset
offset(idx, start) == idx - start - 1

\* line 573: title_map[title] = str(commentary)
Put(map, title, text) ==
    [t \in DOMAIN map \cup {title} |-> IF t = title THEN text ELSE map[t]]

\* lines 569-579, one item: the map after it
AssignItem(map, item, batch, start) ==
    IF int(item[1]) = None THEN map
    ELSE LET off == offset(int(item[1])[1], start)
         IN  IF 0 <= off /\ off < Len(batch)
             THEN Put(map, batch[off + 1].title, item[2])
             ELSE map

\* lines 568-579: the map after the items from the i-th on
RECURSIVE AssignFrom(_, _, _, _, _)
AssignFrom(map, items, i, batch, start) ==
    IF i > Len(items) THEN map
    ELSE AssignFrom(AssignItem(map, items[i], batch, start), items, i + 1,
                    batch, start)

InitBatch ==
    /\ pc = "batch_begin"
    /\ plot_results \in PlotResultLists
    /\ batch_start = 0 /\ raw_items = <<>> /\ title_map = <<>> /\ batches = <<>>
    /\ InertEarlier /\ InertLoad /\ InertText /\ InertApp

\* lines 547-548: no plots, {} is returned
BatchNoPlots ==
    /\ pc = "batch_begin"
    /\ plot_results = <<>>
    /\ pc' = "batch_done"
    /\ UNCHANGED batchVars
    /\ UNCHANGED <<earlierVars, loadVars, textVars, appVars>>

\* lines 550-554: the prompt file is missing, {} is returned
BatchNoPrompt ==
    /\ pc = "batch_begin"
    /\ plot_results # <<>>
    /\ pc' = "batch_done"
    /\ UNCHANGED batchVars
    /\ UNCHANGED <<earlierVars, loadVars, textVars, appVars>>

\* lines 550-557: the prompt is read and the loop is entered
BatchBegin ==
    /\ pc = "batch_begin"
    /\ plot_results # <<>>
    /\ title_map' = <<>>
    /\ batch_start' = 0
    /\ pc' = "batch_call"
    /\ UNCHANGED <<plot_results, raw_items, batches>>
    /\ UNCHANGED <<earlierVars, loadVars, textVars, appVars>>

\* lines 559-566: the batch is described and _call_commentary_api called;
\* it returns {} when its calls failed
BatchCall ==
    /\ pc = "batch_call"
    /\ batch_start < Len(plot_results)
    /\ LET size == Len(batch_of(plot_results, batch_start))
       IN  \E failed \in BOOLEAN :
           \E items \in IF failed THEN {<<>>} ELSE ItemsOf(batch_start, size) :
               /\ raw_items' = items
               /\ batches' = Append(batches,
                                    [start |-> batch_start, size |-> size,
                                     failed |-> failed, items |-> items])
    /\ pc' = "batch_assign"
    /\ UNCHANGED <<plot_results, batch_start, title_map>>
    /\ UNCHANGED <<earlierVars, loadVars, textVars, appVars>>

\* lines 568-579, and the next turn of the loop of line 559
BatchAssign ==
    /\ pc = "batch_assign"
    /\ title_map' = AssignFrom(title_map, raw_items, 1,
                               batch_of(plot_results, batch_start), batch_start)
    /\ batch_start' = batch_start + batch_size
    /\ pc' = "batch_call"
    /\ UNCHANGED <<plot_results, raw_items, batches>>
    /\ UNCHANGED <<earlierVars, loadVars, textVars, appVars>>

\* line 581
BatchReturn ==
    /\ pc = "batch_call"
    /\ batch_start >= Len(plot_results)
    /\ pc' = "batch_done"
    /\ UNCHANGED batchVars
    /\ UNCHANGED <<earlierVars, loadVars, textVars, appVars>>

NextBatch ==
    \/ BatchNoPlots
    \/ BatchNoPrompt
    \/ BatchBegin
    \/ BatchCall
    \/ BatchAssign
    \/ BatchReturn

SpecBatch == InitBatch /\ [][NextBatch]_vars

\* the batches whose items have been gone through
Assigned ==
    {b \in 1..Len(batches) :
        pc \in {"batch_call", "batch_done"} \/ b < Len(batches)}

\* the global 1-based index a key stands for, 0 when it stands for none
ChartIndex(key) ==
    LET digits == SelectSeq(key, LAMBDA ch : ch # " ")
    IN  IF digits # <<>> /\ \A i \in 1..Len(digits) : IsDigit(digits[i])
        THEN DigitsValue(digits) ELSE 0

\* chart k is one of batch b
InBatch(k, b) ==
    batches[b].start < k /\ k <= batches[b].start + batches[b].size

(***************************************************************************)
(* C30: generate_batch_commentary attributes commentary within a batch     *)
(* only.  A commentary in the returned map was written, in the reply for   *)
(* some batch, for a key k that is the global 1-based index of a chart of  *)
(* that same batch, and it is found under that chart's title; keys out of  *)
(* the batch's range and keys that are no integer leave no trace; every    *)
(* key of the map is the title of a plot of plot_results; a batch whose    *)
(* call failed contributes nothing, and the batches after it are still     *)
(* gone through.                                                           *)
(***************************************************************************)
C30_CommentaryWithinBatch ==
    /\ \A t \in DOMAIN title_map :
          /\ \E i \in 1..Len(plot_results) : plot_results[i].title = t
          /\ \E b \in Assigned :
                /\ ~batches[b].failed
                /\ title_map[t].batch = batches[b].start
                /\ \E j \in 1..Len(batches[b].items) :
                      /\ batches[b].items[j][1] = title_map[t].key
                      /\ InBatch(ChartIndex(title_map[t].key), b)
                      /\ plot_results[ChartIndex(title_map[t].key)].title = t
    /\ \A b \in Assigned :
          \A j \in 1..Len(batches[b].items) :
              LET k == ChartIndex(batches[b].items[j][1])
              IN  IF InBatch(k, b)
                  THEN plot_results[k].title \in DOMAIN title_map
                  ELSE \A t \in DOMAIN title_map :
                          title_map[t] # batches[b].items[j][2]
    /\ \A b \in 1..Len(batches) :
          /\ batches[b].start = (b - 1) * 10
          /\ batches[b].failed => batches[b].items = <<>>
    /\ (pc = "batch_done" /\ batches # <<>>) =>
          Len(batches) * 10 >= Len(plot_results)

\* eleven plots: the call for the first batch failed, the reply for the
\* second held the key of its only chart and a key of the first batch, and
\* the map returned holds the commentary of chart 11 alone
C30_Witness ==
    /\ pc = "batch_done" /\ Len(plot_results) = 11 /\ Len(batches) = 2
    /\ batches[1].failed /\ ~batches[2].failed
    /\ \E j \in 1..Len(batches[2].items) :
          batches[2].items[j][1] = <<"1", "1">>
    /\ \E j \in 1..Len(batches[2].items) : batches[2].items[j][1] = <<"1">>
    /\ DOMAIN title_map = {ChartTitle(11)}

====
